---- MODULE Spec2Model ----
(***************************************************************************)
(* State-machine model of react-data-cache.                                *)
(*                                                                         *)
(*  - the data cache (dataCache, prefetchData and its callers, useData,    *)
(*    formatDataResponse, clearDataCache);                                 *)
(*  - RetryManager.execute.                                                *)
(*                                                                         *)
(* JavaScript is single threaded: every handler below runs to completion   *)
(* and is one action.  The suspension points are the promise returned by   *)
(* the fetch function and the timers; each of them is settled by an        *)
(* action of its own.                                                      *)
(***************************************************************************)
EXTENDS Integers, Sequences, FiniteSets, TLC

\* ------------------------------------------------------------------ bounds
MaxFetches == 2          \* fetch function invocations in one behaviour
MaxTicks == 2            \* advances of the clock in one behaviour
MaxAttempts == 3         \* largest RetryConfig.attempts explored

\* ------------------------------------------------------- program constants
defaultStaleTime == 1000 * 5

\* ------------------------------------------------------------ value sets
\* Every operation reads and writes the entry of the one key it is given
\* (clearDataCache: of every key), so one key shows every interleaving of
\* the operations on a key.
Keys == {"posts"}
Values == {"v1", "v2"}                 \* what a fetch function resolves with
Errors == {"e1", "e2"}                   \* non-abort errors it rejects with
AbortError == "AbortError"             \* error.name of a cancelled fetch
Null == "null"                         \* null / undefined payload
TimeSteps == {1, defaultStaleTime - 1} \* amounts the clock advances by
StaleTimes == {0, defaultStaleTime}    \* options.staleTime ?? defaultStaleTime

VARIABLES
    dataCache,   \* key -> DataState; status "absent" stands for no entry
    fetches,     \* sequence of the fetch function invocations made so far:
                 \* [key, aborted (signal.aborted), outcome (of the promise:
                 \* "pending", "fulfilled", "rejected" with a non-abort
                 \* error, "aborted" = rejected with an AbortError)];
                 \* an AbortController is the index of its invocation
    events,      \* number of "dataFetched" events dispatched so far
    hook,        \* key -> currentStatus captured by the closures of the last
                 \* formatDataResponse result for the key ("none": no render)
    background,  \* keys with an active prefetchInBackground interval
    now,         \* Date.now()
    ticks,       \* number of clock advances so far
    rm,          \* a RetryManager together with its running execute() call
    universalInfiniteCache, \* the UniversalInfiniteState of the one cacheKey
    universalRequests,      \* the fetchPage / refetchAll calls made so far
    universalHook,          \* the state captured by the closures of the last
                            \* useUniversalInfiniteQuery result
    infiniteDataCache,      \* the InfiniteDataState of the one key
    infiniteRequests,       \* the fetchInitialPage / fetchInfinitePage /
                            \* refetchInfiniteQuery calls made so far
    hookData,               \* key -> the DataState captured by the closures of
                            \* the last useData result built with
                            \* options.optimisticUpdates (absent: none)
    mutations,              \* the mutationFn invocations made so far
    backgroundSync,         \* a BackgroundSyncManager, the interval timers of
                            \* the page and the calls made to the manager
    adapter,                \* one use of a PaginationAdapters factory
                            \* (offsetBased, custom): the arguments and what
                            \* was computed from them
    staleness,              \* one evaluation of isStale in a useData render:
                            \* the inputs and what was computed from them
    realtime                \* a RealtimeManager, the WebSockets it created,
                            \* its pending reconnection timers and the last
                            \* call made to it

universalVars == <<universalInfiniteCache, universalRequests, universalHook>>
infiniteVars == <<infiniteDataCache, infiniteRequests>>
optimisticVars == <<hookData, mutations>>

vars == <<dataCache, fetches, events, hook, background, now, ticks, rm,
          universalVars, infiniteVars, optimisticVars, backgroundSync,
          adapter, staleness, realtime>>

\* ------------------------------------------------------------- DataState
\* Map.set replaces the whole entry, so a field a writer does not mention is
\* undefined afterwards.  undefined is modelled by 0 for controller,
\* timestamp and retryCount (every read in the source is `x || 0` or a
\* truthiness test, and Date.now() is never 0) and by Null for the payloads.
DataState(status, payload, controller, timestamp, retryCount) ==
    [status |-> status, payload |-> payload, controller |-> controller,
     timestamp |-> timestamp, retryCount |-> retryCount,
     optimisticData |-> Null]

NoEntry == DataState("absent", Null, 0, 0, 0)

\* dataCache.has(key)
Has(cache, k) == cache[k].status # "absent"

\* dataCache.set(key, { status: "idle", payload: null })
IdleEntry == DataState("idle", Null, 0, 0, 0)

\* --------------------------------------------- UniversalInfiniteState
\* undefined page parameter / "no more pages"
Undefined == 0 - 1

\* universalInfiniteCache.set(cacheKey, { status: "idle", pages: [],
\*                                        pageParams: [], data: [], error: null })
\* controller, timestamp and retryCount are undefined (0) until written.
UniversalIdle ==
    [status |-> "idle", pages |-> <<>>, pageParams |-> <<>>, error |-> Null,
     controller |-> 0, timestamp |-> 0, retryCount |-> 0]

\* no entry for the cacheKey
UniversalAbsent == [UniversalIdle EXCEPT !.status = "absent"]

\* no useUniversalInfiniteQuery result has been built yet
NoRender == [UniversalIdle EXCEPT !.status = "norender"]

InitUniversal ==
    /\ universalInfiniteCache = UniversalAbsent
    /\ universalRequests = <<>>
    /\ universalHook = NoRender

\* ------------------------------------------------------ InfiniteDataState
\* infiniteDataCache.set(key, { status: "idle", pages: [], pageParams: [] })
InfiniteIdle ==
    [status |-> "idle", pages |-> <<>>, pageParams |-> <<>>,
     controller |-> 0, timestamp |-> 0]

\* no entry for the key
InfiniteAbsent == [InfiniteIdle EXCEPT !.status = "absent"]

InitInfinite ==
    /\ infiniteDataCache = InfiniteAbsent
    /\ infiniteRequests = <<>>

InitOptimistic ==
    /\ hookData = [k \in Keys |-> NoEntry]
    /\ mutations = <<>>

\* ---------------------------------------------------- BackgroundSyncManager
\* new BackgroundSyncManager(config) in a page whose navigator.onLine is
\* isOnline:
\*   syncInterval  the id setInterval returned (0: undefined)
\*   timers        the interval timers of the page that are active, each
\*                 with its id and its interval
\*   created       setInterval calls so far (ids are 1, 2, ...)
\*   syncs         invocations of config.onSync so far
\*   trigger       who called the sync() that invoked config.onSync last:
\*                 "interval", "online" ("none": no invocation yet)
\*   lastCall      the last of startSync / stopSync called ("none": neither)
BackgroundSyncManager(config, isOnline) ==
    [config |-> config, isOnline |-> isOnline, syncInterval |-> 0,
     timers |-> {}, created |-> 0, syncs |-> 0, trigger |-> "none",
     lastCall |-> "none"]

\* createBackgroundSyncManager(): enabled: false, offlineSupport: false
createBackgroundSyncManager == [enabled |-> FALSE]

InitBackgroundSync ==
    backgroundSync = BackgroundSyncManager(createBackgroundSyncManager, TRUE)

\* ------------------------------------------- PaginationAdapters, one use
\* A response of the fetch function, with the fields offsetBased() looks at;
\* an absent number is 0 (the adapter tests them for truthiness), an absent
\* hasMore is "undefined", and data holds the items (of a bare array: the
\* array itself; absent: none).
PageResponse(totalPages, currentPage, hasMore, page, data) ==
    [totalPages |-> totalPages, currentPage |-> currentPage,
     hasMore |-> hasMore, page |-> page, data |-> data]

\* getNextPageParam(response, allResponses, currentPageParam) about to be
\* called ("input"), called ("called": result holds what it returned), and
\* the hook rendered with this response as its last page ("rendered":
\* hasNextPage holds what the hook computed)
AdapterUse(response, currentPageParam) ==
    [response |-> response, currentPageParam |-> currentPageParam,
     stage |-> "input", result |-> Undefined, hasNextPage |-> FALSE]

InitAdapter ==
    adapter = AdapterUse(PageResponse(0, 0, "true", 0, <<1>>), 1)

\* ------------------------------------------------- isStale, one evaluation
\* isStale about to be computed in a render at time t for an entry with this
\* timestamp (0: none) under options.staleTime ("input"), and computed
\* ("evaluated": isStale holds the result)
StaleEvaluation(timestamp, staleTime, t) ==
    [timestamp |-> timestamp, staleTime |-> staleTime, now |-> t,
     stage |-> "input", isStale |-> FALSE]

InitStaleness == staleness = StaleEvaluation(0, 0, 1)

\* --------------------------------------------------------- RealtimeManager
maxReconnectAttempts == 5
reconnectDelay == 1000

\* new RealtimeManager(config): no socket, no reconnection attempt made.
\* sockets are the WebSockets created so far, ws the index of the one the
\* manager refers to (0: undefined), timers the delays of the pending
\* reconnection timeouts.
RealtimeManager(config) ==
    [config |-> config, ws |-> 0, sockets |-> <<>>, reconnectAttempts |-> 0,
     timers |-> <<>>, lastCall |-> "none"]

\* createRealtimeManager(): enabled: false, no subscriptionUrl
createRealtimeManager == [enabled |-> FALSE, subscriptionUrl |-> FALSE]

InitRealtime == realtime = RealtimeManager(createRealtimeManager)

\* the subsystems next to the data cache and the RetryManager start empty
InitOthers ==
    /\ InitUniversal /\ InitInfinite /\ InitOptimistic /\ InitBackgroundSync
    /\ InitAdapter /\ InitStaleness /\ InitRealtime

\* everything outside the data cache and the RetryManager
otherVars ==
    <<universalVars, infiniteVars, optimisticVars, backgroundSync, adapter,
      staleness, realtime>>

\* ------------------------------------------------------------ prefetchData
\* The handler state the operations below transform: one handler may call
\* prefetchData several times, so the operations are functions from handler
\* state to handler state and an action installs the final one.
Cur == [cache |-> dataCache, fetches |-> fetches, events |-> events]

Install(S) ==
    /\ Len(S.fetches) <= MaxFetches
    /\ dataCache' = S.cache
    /\ fetches' = S.fetches
    /\ events' = S.events

\* if (existingController && dataCache.get(key)?.status === "loading")
ShouldAbortExisting(e) == e.controller # 0 /\ e.status = "loading"

\* existingController.abort(): the signal of that invocation is triggered
abort(fs, c) == [fs EXCEPT ![c].aborted = TRUE]

\* status: options.refetching ? "isRefetching" : "loading"
StartStatus(refetching) == IF refetching THEN "isRefetching" ELSE "loading"

\* dataCache.set(key, { status, payload: null, controller, timestamp })
StartEntry(refetching, controller, t) ==
    DataState(StartStatus(refetching), Null, controller, t, 0)

\* prefetchData up to and including the call fn(signal)
prefetchData(S, k, refetching) ==
    LET e == S.cache[k]
        fs == IF ShouldAbortExisting(e) THEN abort(S.fetches, e.controller)
              ELSE S.fetches
        newController == Len(fs) + 1
    IN [S EXCEPT
          !.cache[k] = StartEntry(refetching, newController, now),
          !.fetches = Append(fs, [key |-> k, aborted |-> FALSE,
                                  outcome |-> "pending"])]

\* faulty variant: the success write forgets the timestamp
SuccessEntryNoTimestamp(data, t) == DataState("success", data, 0, 0, 0)

\* dataCache.set(key, { status: "success", payload: data, timestamp,
\*                      retryCount: retryManager.getCurrentAttempt() })
\* getCurrentAttempt() is 0 here: executeFetch never throws, so the manager
\* that runs it never counts a failure.
SuccessEntry(data, t) == DataState("success", data, 0, t, 0)

\* faulty variant: the error write drops the error object
ErrorEntryNoPayload(error) == DataState("error", Null, 0, 0, 0)

\* dataCache.set(key, { status: "error", payload: error, retryCount, lastError })
ErrorEntry(error) == DataState("error", error, 0, 0, 0)

\* faulty variant: no error is taken for a cancellation
IsAbortErrorNever(error) == FALSE

\* if (error?.name !== "AbortError")
IsAbortError(error) == error = AbortError

\* .then(data => dataCache.set(...)) followed by finally { dispatchEvent }
settleResolved(S, c, data) ==
    [S EXCEPT !.cache[S.fetches[c].key] = SuccessEntry(data, now),
              !.fetches[c].outcome = "fulfilled",
              !.events = @ + 1]

\* .catch(error => { if (error?.name !== "AbortError") dataCache.set(...) })
\* followed by finally { dispatchEvent }
settleRejected(S, c, error) ==
    [S EXCEPT !.cache[S.fetches[c].key] =
                  IF IsAbortError(error) THEN @ ELSE ErrorEntry(error),
              !.fetches[c].outcome =
                  IF IsAbortError(error) THEN "aborted" ELSE "rejected",
              !.events = @ + 1]

\* fetchOrUsePreloadedData(key, fn) with fn given, as every caller does
fetchOrUsePreloadedData(S, k) == prefetchData(S, k, FALSE)

\* ----------------------------------------------------------------- useData
\* faulty variant: >= instead of >
IsStaleInclusive(timestamp, staleTime, t) == t - timestamp >= staleTime

\* Date.now() - (data.timestamp || 0) > (options.staleTime ?? defaultStaleTime)
IsStale(timestamp, staleTime, t) == t - timestamp > staleTime

\* faulty variant: fetch whenever no data has arrived yet
NeedsInitialFetchUntilData(data) == data.status \in {"idle", "loading"}

\* if (data.status === "idle") fetchOrUsePreloadedData(key, fn)
NeedsInitialFetch(data) == data.status = "idle"

\* if (options.refetchOnMount && data.status === "success" && isStale)
NeedsRefetchOnMount(data, refetchOnMount, isStale) ==
    refetchOnMount /\ data.status = "success" /\ isStale

\* const currentStatus = dataCache.get(key)?.status || "idle"
CurrentStatus(cache, k) == IF Has(cache, k) THEN cache[k].status ELSE "idle"

\* one render of a component that calls useData(key, fn, options)
useData(S, k, staleTime, refetchOnMount, noCache) ==
    LET S1 == IF ~Has(S.cache, k) THEN [S EXCEPT !.cache[k] = IdleEntry] ELSE S
        data == S1.cache[k]
        isStale == IsStale(data.timestamp, staleTime, now)
        S2 == IF noCache THEN [S1 EXCEPT !.cache[k] = NoEntry] ELSE S1
        S3 == IF NeedsInitialFetch(data) THEN fetchOrUsePreloadedData(S2, k)
              ELSE S2
    IN IF NeedsRefetchOnMount(data, refetchOnMount, isStale)
       THEN prefetchData(S3, k, TRUE) ELSE S3

\* ------------------------------------------------------ formatDataResponse
\* statusResponse[status]: what the hook hands to the component for an entry
Truthy(x, y) == IF x # Null THEN x ELSE y      \* x || y on payloads
StatusResponse(e) ==
    LET defaultData == [isLoading |-> FALSE, data |-> Null, error |-> Null,
                        isRefetching |-> FALSE]
    IN CASE e.status = "isRefetching" ->
              [defaultData EXCEPT !.isRefetching = TRUE,
                                  !.data = Truthy(e.optimisticData, e.payload)]
         [] e.status = "error" -> [defaultData EXCEPT !.error = e.payload]
         [] e.status = "success" ->
              [defaultData EXCEPT !.data = Truthy(e.optimisticData, e.payload)]
         [] OTHER -> [defaultData EXCEPT !.isLoading = TRUE]

\* if (currentStatus !== "loading" && currentStatus !== "isRefetching")
RefetchAllowed(currentStatus) ==
    currentStatus # "loading" /\ currentStatus # "isRefetching"

\* refetch: () => { if (...) { dataCache.set(key, idle); fetchOrUse...(key, fn) } }
\* currentStatus is the value captured when the response was built.
refetch(S, k, currentStatus) ==
    IF RefetchAllowed(currentStatus)
    THEN fetchOrUsePreloadedData([S EXCEPT !.cache[k] = IdleEntry], k)
    ELSE S

\* retry: () => { if (currentState && currentState.status === "error") {...} }
retry(S, k) ==
    LET currentState == S.cache[k] IN
    IF Has(S.cache, k) /\ currentState.status = "error"
    THEN fetchOrUsePreloadedData(
             [S EXCEPT !.cache[k] =
                 DataState("idle", Null, 0, 0, currentState.retryCount + 1)], k)
    ELSE S

\* ------------------------------------------------- prefetch.ts entry points
\* prefetchMulti: prefetchData(key, fn) for every data source
RECURSIVE prefetchMulti(_, _)
prefetchMulti(S, ks) ==
    IF ks = {} THEN S
    ELSE LET k == CHOOSE x \in ks : TRUE
         IN prefetchMulti(prefetchData(S, k, FALSE), ks \ {k})

\* prefetchOnEvent: if (!dataCache.has(key)) prefetchData(key, fn)
prefetchOnEvent(S, k) ==
    IF ~Has(S.cache, k) THEN prefetchData(S, k, FALSE) ELSE S

Strategies == {"cache-first", "network-first", "stale-while-revalidate"}

\* prefetchWithStrategy
prefetchWithStrategy(S, k, strategy) ==
    LET cached == S.cache[k]
        hit == Has(S.cache, k) /\ cached.status = "success"
    IN CASE strategy = "cache-first" /\ hit -> S
         [] strategy = "stale-while-revalidate" /\ hit -> prefetchData(S, k, TRUE)
         [] OTHER -> prefetchData(S, k, FALSE)

\* ------------------------------------------------------------ RetryManager
Delays == {100, 1000}
MaxRetryMessage == "Max retry attempts reached"

\* RetryConfig: attempts, delay, exponentialBackoff
RetryConfigs ==
    [attempts : (0 - 1)..MaxAttempts, delay : Delays,
     exponentialBackoff : BOOLEAN]

\* createRetryManager(): the default configuration
createRetryManager ==
    [attempts |-> 3, delay |-> 1000, exponentialBackoff |-> TRUE]

\* new RetryManager(config), with the record of one execute() call:
\*   pc      where the call stands: "idle" (not called), "fn" (awaiting
\*           fn()), "sleep" (awaiting the backoff timer), "resolved",
\*           "rejected"
\*   calls   invocations of fn so far
\*   waits   the delays passed to setTimeout so far, in order
\*   handled the attempt numbers passed to config.onError so far, in order
\*   result  the value the call resolved with or the error it rejected with
RetryManager(config) ==
    [config |-> config, currentAttempt |-> 0, pc |-> "idle", calls |-> 0,
     waits |-> <<>>, handled |-> <<>>, result |-> Null]

\* faulty variant: the exponent is off by one
BackoffDelayOffByOne(config, currentAttempt) ==
    IF config.exponentialBackoff
    THEN config.delay * 2 ^ currentAttempt
    ELSE config.delay

\* const delay = exponentialBackoff ? delay * Math.pow(2, currentAttempt - 1)
\*                                  : delay
BackoffDelay(config, currentAttempt) ==
    IF config.exponentialBackoff
    THEN config.delay * 2 ^ (currentAttempt - 1)
    ELSE config.delay

\* faulty variant: <= instead of <
AttemptsRemainInclusive(m) == m.currentAttempt <= m.config.attempts

\* while (this.currentAttempt < this.config.attempts)
AttemptsRemain(m) == m.currentAttempt < m.config.attempts

\* top of the while loop: call fn() or fall out to the final throw
LoopHead(m) ==
    IF AttemptsRemain(m)
    THEN [m EXCEPT !.pc = "fn", !.calls = @ + 1]
    ELSE [m EXCEPT !.pc = "rejected", !.result = MaxRetryMessage]

\* catch (error): count the attempt, report it, rethrow or compute the delay
Caught(m, error) ==
    LET n == m.currentAttempt + 1
        m1 == [m EXCEPT !.currentAttempt = n, !.handled = Append(@, n)]
    IN IF n >= m.config.attempts
       THEN [m1 EXCEPT !.pc = "rejected", !.result = error]
       ELSE [m1 EXCEPT !.pc = "sleep",
                       !.waits = Append(@, BackoffDelay(m.config, n))]

dataVars == <<dataCache, fetches, events, hook, background, now, ticks>>

\* execute(fn): this.currentAttempt = 0, then the loop
Execute ==
    /\ rm.pc \in {"idle", "resolved", "rejected"}
    /\ rm' = LoopHead(RetryManager(rm.config))
    /\ UNCHANGED <<dataVars, otherVars>>

\* fn() fulfils: return result
FnResolves(v) ==
    /\ rm.pc = "fn"
    /\ rm' = [rm EXCEPT !.pc = "resolved", !.result = v]
    /\ UNCHANGED <<dataVars, otherVars>>

\* fn() rejects
FnRejects(error) ==
    /\ rm.pc = "fn"
    /\ rm' = Caught(rm, error)
    /\ UNCHANGED <<dataVars, otherVars>>

\* the setTimeout of the backoff fires: next iteration
BackoffElapsed ==
    /\ rm.pc = "sleep"
    /\ rm' = LoopHead(rm)
    /\ UNCHANGED <<dataVars, otherVars>>

\* reset(), called between two execute() calls
Reset ==
    /\ rm.pc \in {"idle", "resolved", "rejected"}
    /\ rm' = [rm EXCEPT !.currentAttempt = 0]
    /\ UNCHANGED <<dataVars, otherVars>>

InitRetry ==
    /\ dataCache = [k \in Keys |-> NoEntry]
    /\ fetches = <<>>
    /\ events = 0
    /\ hook = [k \in Keys |-> "none"]
    /\ background = {}
    /\ now = 1
    /\ ticks = 0
    /\ rm \in {RetryManager(c) : c \in RetryConfigs}
    /\ InitOthers

NextRetry ==
    \/ Execute
    \/ \E v \in Values : FnResolves(v)
    \/ \E e \in Errors : FnRejects(e)
    \/ BackoffElapsed
    \/ Reset

SpecRetry == InitRetry /\ [][NextRetry]_vars

\* fn() rejects with the AbortError of a fetch whose signal fired: the catch
\* block of execute() does not look at the error it caught
FnAborted ==
    /\ rm.pc = "fn"
    /\ rm' = Caught(rm, AbortError)
    /\ UNCHANGED <<dataVars, otherVars>>

NextRetryAbort ==
    \/ NextRetry
    \/ FnAborted

SpecRetryAbort == InitRetry /\ [][NextRetryAbort]_vars

\* ------------------------------------------------------------------ actions
\* the promise of invocation c has not settled
Pending(c) == c \in DOMAIN fetches /\ fetches[c].outcome = "pending"

Init ==
    /\ dataCache = [k \in Keys |-> NoEntry]
    /\ fetches = <<>>
    /\ events = 0
    /\ hook = [k \in Keys |-> "none"]
    /\ background = {}
    /\ now = 1
    /\ ticks = 0
    /\ rm = RetryManager(createRetryManager)
    /\ InitOthers

UseData(k, staleTime, refetchOnMount, noCache) ==
    LET S == useData(Cur, k, staleTime, refetchOnMount, noCache) IN
    /\ Install(S)
    /\ hook' = [hook EXCEPT ![k] = CurrentStatus(S.cache, k)]
    /\ UNCHANGED <<background, now, ticks, rm, otherVars>>

\* refetch() of the last response built for the key; the retry() of the
\* object useData returns resets its RetryManager and calls this refetch()
Refetch(k) ==
    /\ hook[k] # "none"
    /\ Install(refetch(Cur, k, hook[k]))
    /\ UNCHANGED <<hook, background, now, ticks, rm, otherVars>>

\* retry() of the response formatDataResponse builds
Retry(k) ==
    /\ Install(retry(Cur, k))
    /\ UNCHANGED <<hook, background, now, ticks, rm, otherVars>>

PrefetchData(k, refetching) ==
    /\ Install(prefetchData(Cur, k, refetching))
    /\ UNCHANGED <<hook, background, now, ticks, rm, otherVars>>

PrefetchMulti(ks) ==
    /\ Install(prefetchMulti(Cur, ks))
    /\ UNCHANGED <<hook, background, now, ticks, rm, otherVars>>

PrefetchOnEvent(k) ==
    /\ Install(prefetchOnEvent(Cur, k))
    /\ UNCHANGED <<hook, background, now, ticks, rm, otherVars>>

PrefetchWithStrategy(k, strategy) ==
    /\ Install(prefetchWithStrategy(Cur, k, strategy))
    /\ UNCHANGED <<hook, background, now, ticks, rm, otherVars>>

\* prefetchInBackground: an initial prefetchData, then setInterval
PrefetchInBackground(k) ==
    /\ k \notin background
    /\ Install(prefetchData(Cur, k, FALSE))
    /\ background' = background \cup {k}
    /\ UNCHANGED <<hook, now, ticks, rm, otherVars>>

\* the interval callback: prefetchData(key, fn, { refetching: true })
BackgroundTick(k) ==
    /\ k \in background
    /\ Install(prefetchData(Cur, k, TRUE))
    /\ UNCHANGED <<hook, background, now, ticks, rm, otherVars>>

\* the cleanup function prefetchInBackground returns: clearInterval
StopBackground(k) ==
    /\ k \in background
    /\ background' = background \ {k}
    /\ UNCHANGED <<dataCache, fetches, events, hook, now, ticks, rm, otherVars>>

\* clearDataCache: dataCache.clear()
ClearDataCache ==
    /\ dataCache' = [k \in Keys |-> NoEntry]
    /\ UNCHANGED <<fetches, events, hook, background, now, ticks, rm, otherVars>>

\* the promise of invocation c fulfils with data (the fetch function may
\* ignore its signal, so this can happen after an abort)
Resolve(c, data) ==
    /\ Pending(c)
    /\ Install(settleResolved(Cur, c, data))
    /\ UNCHANGED <<hook, background, now, ticks, rm, otherVars>>

\* the promise of invocation c rejects with a non-abort error
Reject(c, error) ==
    /\ Pending(c)
    /\ Install(settleRejected(Cur, c, error))
    /\ UNCHANGED <<hook, background, now, ticks, rm, otherVars>>

\* the promise of invocation c rejects with an AbortError: its signal fired
RejectAborted(c) ==
    /\ Pending(c) /\ fetches[c].aborted
    /\ Install(settleRejected(Cur, c, AbortError))
    /\ UNCHANGED <<hook, background, now, ticks, rm, otherVars>>

\* time passes
Tick(d) ==
    /\ ticks < MaxTicks
    /\ now' = now + d
    /\ ticks' = ticks + 1
    /\ UNCHANGED <<dataCache, fetches, events, hook, background, rm,
                   otherVars>>

Next ==
    \/ \E k \in Keys, st \in StaleTimes, rom \in BOOLEAN, nc \in BOOLEAN :
          UseData(k, st, rom, nc)
    \/ \E k \in Keys : Refetch(k)
    \/ \E k \in Keys : Retry(k)
    \/ \E k \in Keys, r \in BOOLEAN : PrefetchData(k, r)
    \/ \E ks \in SUBSET Keys : PrefetchMulti(ks)
    \/ \E k \in Keys : PrefetchOnEvent(k)
    \/ \E k \in Keys, s \in Strategies : PrefetchWithStrategy(k, s)
    \/ \E k \in Keys : PrefetchInBackground(k)
    \/ \E k \in Keys : BackgroundTick(k)
    \/ \E k \in Keys : StopBackground(k)
    \/ ClearDataCache
    \/ \E c \in 1..MaxFetches, v \in Values : Resolve(c, v)
    \/ \E c \in 1..MaxFetches, e \in Errors : Reject(c, e)
    \/ \E c \in 1..MaxFetches : RejectAborted(c)
    \/ \E d \in TimeSteps : Tick(d)

Spec == Init /\ [][Next]_vars

\* ------------------------------------------- prefetchData with a retryConfig
\* createRetryManager({ attempts: retryConfig?.attempts || 3,
\*                      delay: retryConfig?.delay || 1000,
\*                      exponentialBackoff: retryConfig?.exponentialBackoff !== false })
RetryConfigOf(retryConfig) ==
    [attempts |-> IF retryConfig.attempts = 0 THEN 3 ELSE retryConfig.attempts,
     delay |-> IF retryConfig.delay = 0 THEN 1000 ELSE retryConfig.delay,
     exponentialBackoff |-> retryConfig.exponentialBackoff]

\* executeFetch has a try / catch / finally of its own and rethrows nothing:
\* the promise it returns to RetryManager.execute always fulfils, with
\* undefined.
ExecuteFetchReturns(m) == [m EXCEPT !.pc = "resolved", !.result = Null]

\* prefetchData(key, fn, { refetching, retryConfig }): the entry is written,
\* then retryManager.execute(executeFetch) runs the loop head, which calls
\* executeFetch, which calls fn(signal).  rm is the manager of the latest
\* such call.  The loop never reaches its catch block, its backoff timer or
\* its final throw, so the .catch() handler of the call never runs.
PrefetchDataRetry(k, refetching, retryConfig) ==
    /\ Install(prefetchData(Cur, k, refetching))
    /\ rm' = LoopHead(RetryManager(RetryConfigOf(retryConfig)))
    /\ UNCHANGED <<hook, background, now, ticks, otherVars>>

\* the manager that awaits the executeFetch of invocation c sees it return
ManagerAfter(c) == IF c = Len(fetches) THEN ExecuteFetchReturns(rm) ELSE rm

\* fn(signal) of invocation c fulfils inside executeFetch
ExecuteFetchResolves(c, data) ==
    /\ Pending(c)
    /\ Install(settleResolved(Cur, c, data))
    /\ rm' = ManagerAfter(c)
    /\ UNCHANGED <<hook, background, now, ticks, otherVars>>

\* fn(signal) of invocation c rejects inside executeFetch, with a non-abort
\* error or, once its signal has fired, with an AbortError
ExecuteFetchRejects(c, error) ==
    /\ Pending(c)
    /\ IsAbortError(error) => fetches[c].aborted
    /\ Install(settleRejected(Cur, c, error))
    /\ rm' = ManagerAfter(c)
    /\ UNCHANGED <<hook, background, now, ticks, otherVars>>

NextPrefetchRetry ==
    \/ \E k \in Keys, r \in BOOLEAN, rc \in RetryConfigs :
          PrefetchDataRetry(k, r, rc)
    \/ \E c \in 1..MaxFetches, v \in Values : ExecuteFetchResolves(c, v)
    \/ \E c \in 1..MaxFetches, e \in Errors \cup {AbortError} :
          ExecuteFetchRejects(c, e)

SpecPrefetchRetry == Init /\ [][NextPrefetchRetry]_vars

\* ------------------------------------------------ PaginationAdapters
\* faulty variant: hasMore is not looked at
getNextPageParamIgnoringHasMore(response, currentPageParam) ==
    IF currentPageParam = Undefined THEN 2 ELSE currentPageParam + 1

\* PaginationAdapters.offsetBased().getNextPageParam(response, allResponses,
\*                                                   currentPageParam = 1)
getNextPageParam(response, currentPageParam) ==
    LET current == IF currentPageParam = Undefined THEN 1
                   ELSE currentPageParam
    IN IF response.totalPages # 0 /\ response.currentPage # 0
       THEN IF response.currentPage < response.totalPages
            THEN response.currentPage + 1 ELSE Undefined
       ELSE IF response.hasMore # "undefined"
       THEN IF response.hasMore = "true" THEN current + 1 ELSE Undefined
       ELSE IF response.page # 0 /\ response.totalPages # 0
       THEN IF response.page < response.totalPages
            THEN response.page + 1 ELSE Undefined
       ELSE IF Len(response.data) = 0 THEN Undefined ELSE current + 1

\* options.getPreviousPageParam(firstPage, pages, firstPageParam): supplied
\* by the caller; here the page before the first one, down to page 1
getPreviousPageParam(response, currentPageParam) ==
    IF currentPageParam > 1 THEN currentPageParam - 1 ELSE Undefined

\* options.initialPageParam: 1 for offsetBased(), or a later page
InitialPageParams == {1, 2}

\* ---------------------------------------------- useUniversalInfiniteQuery
MaxRequests == 3         \* fetchPage / refetchAll calls in one behaviour

\* what the fetch function answers for a page: the page asked for, with or
\* without more pages after it
ResponseFor(pageParam, hasMore) ==
    PageResponse(0, 0, hasMore, 0, <<pageParam>>)

HasMore == {"true", "false"}

Last(seq) == IF Len(seq) = 0 THEN Undefined ELSE seq[Len(seq)]
First(seq) == IF Len(seq) = 0 THEN Undefined ELSE seq[1]

\* faulty variant: the resolver is not consulted
hasNextPageAlways(state) == TRUE

\* const hasNextPage = lastPage
\*     ? options.getNextPageParam(lastPage, pages, lastPageParam) !== undefined
\*     : false
hasNextPage(state) ==
    /\ Len(state.pages) > 0
    /\ getNextPageParam(Last(state.pages), Last(state.pageParams)) # Undefined

\* const hasPreviousPage = firstPage && options.getPreviousPageParam ? ... : false
hasPreviousPage(state) ==
    /\ Len(state.pages) > 0
    /\ getPreviousPageParam(First(state.pages), First(state.pageParams))
          # Undefined

\* the handler state of the universal cache
CurU == [cache |-> universalInfiniteCache, requests |-> universalRequests]

InstallU(S) ==
    /\ Len(S.requests) <= MaxRequests
    /\ universalInfiniteCache' = S.cache
    /\ universalRequests' = S.requests

\* if (currentState.controller) currentState.controller.abort()
abortController(rs, controller) ==
    IF controller # 0 THEN [rs EXCEPT ![controller].aborted = TRUE] ELSE rs

\* status of a page fetch in a direction
DirectionStatus(direction) ==
    CASE direction = "initial" -> "loading"
      [] direction = "next" -> "fetchingNextPage"
      [] OTHER -> "fetchingPreviousPage"

\* a fetchPage or refetchAll call: its arguments, the currentState it read
\* when it started, the pages a refetchAll has collected so far, whether its
\* signal was triggered and how the call ended
Request(kind, direction, pageParam, currentState) ==
    [kind |-> kind, direction |-> direction, pageParam |-> pageParam,
     currentState |-> currentState, refetchedPages |-> <<>>,
     aborted |-> FALSE, outcome |-> "pending"]

\* fetchPage up to and including the call fetchFn(pageParam, signal, meta)
fetchPage(S, pageParam, direction) ==
    LET currentState == S.cache
        rs == abortController(S.requests, currentState.controller)
        controller == Len(rs) + 1
    IN IF currentState.status = "absent" THEN S
       ELSE [cache |-> [currentState EXCEPT
                           !.status = DirectionStatus(direction),
                           !.controller = controller],
             requests |-> Append(rs, Request("page", direction, pageParam,
                                             currentState))]

\* faulty variant: refetchAll without the test for an empty pageParams
refetchAllOfNothing(S) ==
    LET currentState == S.cache
        rs == abortController(S.requests, currentState.controller)
        controller == Len(rs) + 1
    IN IF currentState.status = "absent"
       THEN S
       ELSE [cache |-> [currentState EXCEPT !.status = "loading",
                                            !.controller = controller],
             requests |-> Append(rs, Request("refetch", "all", Undefined,
                                             currentState))]

\* refetchAll up to and including the first call of fetchFn
refetchAll(S) ==
    LET currentState == S.cache
        rs == abortController(S.requests, currentState.controller)
        controller == Len(rs) + 1
    IN IF currentState.status = "absent" \/ Len(currentState.pageParams) = 0
       THEN S
       ELSE [cache |-> [currentState EXCEPT !.status = "loading",
                                            !.controller = controller],
             requests |-> Append(rs, Request("refetch", "all", Undefined,
                                             currentState))]

\* faulty variant: the page is stored without its parameter
newPageParamsForgotten(direction, pageParam, pageParams) == pageParams

\* const newPageParams = direction === "previous"
\*     ? [pageParam, ...updatedState.pageParams]
\*     : [...updatedState.pageParams, pageParam]
newPageParams(direction, pageParam, pageParams) ==
    IF direction = "previous" THEN <<pageParam>> \o pageParams
    ELSE Append(pageParams, pageParam)

\* faulty variant: the response goes to the tail in either direction
newPagesAlwaysAppended(direction, response, pages) == Append(pages, response)

\* const newPages = direction === "previous" ? [response, ...pages]
\*                                           : [...pages, response]
newPages(direction, response, pages) ==
    IF direction = "previous" THEN <<response>> \o pages
    ELSE Append(pages, response)

\* PaginationAdapters.offsetBased().select:
\* Array.isArray(response) ? response : response.data
select(response) == response.data

\* const flattenedData = state.pages.flatMap(page => options.select(page))
RECURSIVE flatMapSelect(_)
flatMapSelect(pages) ==
    IF Len(pages) = 0 THEN <<>>
    ELSE select(Head(pages)) \o flatMapSelect(Tail(pages))

\* data: state.optimisticData || flattenedData; no code writes
\* optimisticData other than undefined into the universal cache
flattenedData(state) == flatMapSelect(state.pages)

\* fetchPage after `await fetchFn(...)` fulfilled: the page is added to the
\* state the cache holds now
pageFetched(S, c, response) ==
    LET r == S.requests[c]
        updatedState == S.cache
    IN [cache |-> IF updatedState.status = "absent" THEN updatedState
                  ELSE [updatedState EXCEPT
                          !.status = "success",
                          !.pages = newPages(r.direction, response, @),
                          !.pageParams =
                              newPageParams(r.direction, r.pageParam, @),
                          !.timestamp = now,
                          !.controller = 0],
        requests |-> [S.requests EXCEPT ![c].outcome = "fulfilled"]]

\* the error write of fetchPage (on the state the cache holds now) and of
\* refetchAll (on the currentState it started from)
UniversalError(state, error) ==
    [state EXCEPT !.status = "error", !.error = error, !.controller = 0,
                  !.retryCount = @ + 1]

\* fetchPage after `await fetchFn(...)` rejected
pageFailed(S, c, error) ==
    [cache |-> IF IsAbortError(error) \/ S.cache.status = "absent"
               THEN S.cache ELSE UniversalError(S.cache, error),
     requests |-> [S.requests EXCEPT
                     ![c].outcome = IF IsAbortError(error) THEN "aborted"
                                    ELSE "rejected"]]

\* faulty variant: every call of a refetch asks for the first stored page
AwaitedPageParamFirst(r) ==
    IF r.kind = "refetch" THEN r.currentState.pageParams[1] ELSE r.pageParam

\* the parameter of the fetchFn call a request is awaiting
AwaitedPageParam(r) ==
    IF r.kind = "refetch"
    THEN r.currentState.pageParams[Len(r.refetchedPages) + 1]
    ELSE r.pageParam

\* refetchAll after one `await fetchFn(...)` of its loop fulfilled: the next
\* call, or after the last one the write of the refetched pages
pageRefetched(S, c, response) ==
    LET r == S.requests[c]
        refetchedPages == Append(r.refetchedPages, response)
    IN IF Len(refetchedPages) < Len(r.currentState.pageParams)
       THEN [S EXCEPT !.requests[c].refetchedPages = refetchedPages]
       ELSE [cache |-> [r.currentState EXCEPT !.status = "success",
                                              !.pages = refetchedPages,
                                              !.timestamp = now,
                                              !.controller = 0],
             requests |-> [S.requests EXCEPT
                             ![c].refetchedPages = refetchedPages,
                             ![c].outcome = "fulfilled"]]

\* refetchAll after an `await fetchFn(...)` of its loop rejected
refetchFailed(S, c, error) ==
    [cache |-> IF IsAbortError(error) THEN S.cache
               ELSE UniversalError(S.requests[c].currentState, error),
     requests |-> [S.requests EXCEPT
                     ![c].outcome = IF IsAbortError(error) THEN "aborted"
                                    ELSE "rejected"]]

exceptUniversal ==
    <<dataVars, rm, infiniteVars, optimisticVars, backgroundSync, adapter,
      staleness, realtime>>

PendingU(c) ==
    c \in DOMAIN universalRequests /\ universalRequests[c].outcome = "pending"

\* the body of useUniversalInfiniteQuery: the entry is created when missing,
\* if (state.status === "idle" && options.enabled !== false) fetchPage(initial)
useUniversalInfiniteQuery(S0, initialPageParam, enabled) ==
    LET S == IF S0.cache.status = "absent"
             THEN [S0 EXCEPT !.cache = UniversalIdle] ELSE S0
    IN IF S.cache.status = "idle" /\ enabled
       THEN fetchPage(S, initialPageParam, "initial") ELSE S

\* one render of a component that calls useUniversalInfiniteQuery: the entry
\* is created, the state is read, an idle entry starts the initial fetch
UseUniversalInfiniteQuery(initialPageParam, enabled) ==
    LET S == IF universalInfiniteCache.status = "absent"
             THEN [CurU EXCEPT !.cache = UniversalIdle] ELSE CurU
        state == S.cache
    IN /\ InstallU(useUniversalInfiniteQuery(CurU, initialPageParam, enabled))
       /\ universalHook' = state
       /\ UNCHANGED exceptUniversal

\* fetchNextPage: () => { if (hasNextPage && state.status !== "fetchingNextPage")
\*                           fetchPage(..., nextPageParam, "next") }
\* state is the one the result was built from.
fetchNextPage(S, state) ==
    IF hasNextPage(state) /\ state.status # "fetchingNextPage"
    THEN fetchPage(S, getNextPageParam(Last(state.pages),
                                       Last(state.pageParams)), "next")
    ELSE S

\* fetchPreviousPage: () => { if (hasPreviousPage &&
\*     state.status !== "fetchingPreviousPage" && options.getPreviousPageParam)
\*                               fetchPage(..., prevPageParam, "previous") }
fetchPreviousPage(S, state) ==
    IF hasPreviousPage(state) /\ state.status # "fetchingPreviousPage"
    THEN fetchPage(S, getPreviousPageParam(First(state.pages),
                                           First(state.pageParams)),
                   "previous")
    ELSE S

\* fetchNextPage() of the last result
FetchNextPage ==
    /\ InstallU(fetchNextPage(CurU, universalHook))
    /\ UNCHANGED <<universalHook, exceptUniversal>>

\* fetchPreviousPage() of the last result
FetchPreviousPage ==
    /\ InstallU(fetchPreviousPage(CurU, universalHook))
    /\ UNCHANGED <<universalHook, exceptUniversal>>

\* refetch() of the last result, and its retry(), which resets the
\* RetryManager of the hook and calls refetchAll as well
RefetchAll ==
    /\ universalHook # NoRender
    /\ InstallU(refetchAll(CurU))
    /\ UNCHANGED <<universalHook, exceptUniversal>>

\* the fetchFn call request c awaits fulfils (the fetch function may ignore
\* its signal, so this can happen after an abort)
UniversalResolves(c, hasMore) ==
    /\ PendingU(c)
    /\ LET r == universalRequests[c]
           response == ResponseFor(AwaitedPageParam(r), hasMore)
       IN InstallU(IF r.kind = "page" THEN pageFetched(CurU, c, response)
                   ELSE pageRefetched(CurU, c, response))
    /\ UNCHANGED <<universalHook, exceptUniversal>>

\* the fetchFn call request c awaits rejects, with a non-abort error or,
\* once its signal has fired, with an AbortError
UniversalRejects(c, error) ==
    /\ PendingU(c)
    /\ IsAbortError(error) => universalRequests[c].aborted
    /\ InstallU(IF universalRequests[c].kind = "page"
                THEN pageFailed(CurU, c, error)
                ELSE refetchFailed(CurU, c, error))
    /\ UNCHANGED <<universalHook, exceptUniversal>>

NextUniversal ==
    \/ \E p \in InitialPageParams, enabled \in BOOLEAN :
          UseUniversalInfiniteQuery(p, enabled)
    \/ FetchNextPage
    \/ FetchPreviousPage
    \/ RefetchAll
    \/ \E c \in 1..MaxRequests, h \in HasMore : UniversalResolves(c, h)
    \/ \E c \in 1..MaxRequests, e \in Errors \cup {AbortError} :
          UniversalRejects(c, e)

SpecUniversal == Init /\ [][NextUniversal]_vars

\* ------------------------------------------------------- useInfiniteQuery
\* A page the fetch function answers with: the page asked for, with or
\* without more pages after it.  The error writes put the error object where
\* pages are kept; it has neither field of a page.
InfinitePage(pageParam, hasMore) ==
    [page |-> pageParam, hasMore |-> hasMore, error |-> Null]
ErrorAsPage(error) ==
    [page |-> Undefined, hasMore |-> "undefined", error |-> error]

\* options.getNextPageParam(lastPage, allPages), supplied by the caller:
\* lastPage.hasMore ? lastPage.page + 1 : undefined
infiniteNextPageParam(pages) ==
    IF Len(pages) > 0 /\ Last(pages).hasMore = "true"
    THEN Last(pages).page + 1 ELSE Undefined

\* options.getPreviousPageParam(firstPage, allPages), supplied by the caller:
\* firstPage.page > 1 ? firstPage.page - 1 : undefined
infinitePreviousPageParam(pages) ==
    IF Len(pages) > 0 /\ First(pages).page > 1
    THEN First(pages).page - 1 ELSE Undefined

CurI == [cache |-> infiniteDataCache, requests |-> infiniteRequests]

MaxInfiniteRequests == 2 \* fetches started on infiniteDataCache in one behaviour

InstallI(S) ==
    /\ Len(S.requests) <= MaxInfiniteRequests
    /\ infiniteDataCache' = S.cache
    /\ infiniteRequests' = S.requests

\* fetchInitialPage up to and including the call fn(initialPageParam, signal)
fetchInitialPage(S, initialPageParam) ==
    LET controller == Len(S.requests) + 1 IN
    [cache |-> [InfiniteIdle EXCEPT !.status = "loading",
                                    !.controller = controller],
     requests |-> Append(S.requests,
                         Request("initial", "initial", initialPageParam,
                                 S.cache))]

\* fetchInfinitePage up to and including the call fn(pageParam, signal)
fetchInfinitePage(S, direction) ==
    LET currentState == S.cache
        pageParam == IF direction = "next"
                     THEN infiniteNextPageParam(currentState.pages)
                     ELSE infinitePreviousPageParam(currentState.pages)
        rs == abortController(S.requests, currentState.controller)
        newController == Len(rs) + 1
    IN IF \/ currentState.status = "absent"
          \/ currentState.status \in {"fetchingNextPage",
                                      "fetchingPreviousPage"}
          \/ pageParam = Undefined
       THEN S
       ELSE [cache |-> [currentState EXCEPT
                           !.status = DirectionStatus(direction),
                           !.controller = newController],
             requests |-> Append(rs, Request("page", direction, pageParam,
                                             currentState))]

\* refetchInfiniteQuery up to and including the first call of fn
refetchInfiniteQuery(S) ==
    LET currentState == S.cache
        rs == abortController(S.requests, currentState.controller)
        newController == Len(rs) + 1
    IN IF currentState.status = "absent" \/ Len(currentState.pageParams) = 0
       THEN S
       ELSE [cache |-> [currentState EXCEPT !.status = "loading",
                                            !.controller = newController],
             requests |-> Append(rs, Request("refetch", "all", Undefined,
                                             currentState))]

\* the three error writes: status "error", pages: [error], no controller
InfiniteError(state, error) ==
    [state EXCEPT !.status = "error", !.pages = <<ErrorAsPage(error)>>,
                  !.controller = 0]

Settled(rs, c, outcome) == [rs EXCEPT ![c].outcome = outcome]
RejectionOutcome(error) == IF IsAbortError(error) THEN "aborted" ELSE "rejected"

\* a call after its `await fn(...)` fulfilled with newPage
infiniteFulfilled(S, c, newPage) ==
    LET r == S.requests[c]
        updatedState == S.cache
        refetchedPages == Append(r.refetchedPages, newPage)
    IN CASE r.kind = "initial" ->
              [cache |-> [InfiniteIdle EXCEPT
                            !.status = "success",
                            !.pages = <<newPage>>,
                            !.pageParams = <<r.pageParam>>,
                            !.timestamp = now],
               requests |-> Settled(S.requests, c, "fulfilled")]
         [] r.kind = "page" ->
              [cache |-> IF updatedState.status = "absent" THEN updatedState
                         ELSE [updatedState EXCEPT
                                 !.status = "success",
                                 !.pages = newPages(r.direction, newPage, @),
                                 !.pageParams =
                                     newPageParams(r.direction, r.pageParam, @),
                                 !.timestamp = now,
                                 !.controller = 0],
               requests |-> Settled(S.requests, c, "fulfilled")]
         [] OTHER ->
              IF Len(refetchedPages) < Len(r.currentState.pageParams)
              THEN [S EXCEPT !.requests[c].refetchedPages = refetchedPages]
              ELSE [cache |-> [r.currentState EXCEPT
                                 !.status = "success",
                                 !.pages = refetchedPages,
                                 !.timestamp = now,
                                 !.controller = 0],
                    requests |->
                        [Settled(S.requests, c, "fulfilled") EXCEPT
                            ![c].refetchedPages = refetchedPages]]

\* a call after its `await fn(...)` rejected
infiniteRejected(S, c, error) ==
    LET r == S.requests[c]
        updatedState == S.cache
    IN [cache |->
          CASE IsAbortError(error) -> updatedState
            [] r.kind = "initial" ->
                 [InfiniteError(InfiniteIdle, error) EXCEPT !.pageParams = <<>>]
            [] r.kind = "page" ->
                 IF updatedState.status = "absent" THEN updatedState
                 ELSE InfiniteError(updatedState, error)
            [] OTHER -> InfiniteError(r.currentState, error),
        requests |-> Settled(S.requests, c, RejectionOutcome(error))]

exceptInfinite ==
    <<dataVars, rm, universalVars, optimisticVars, backgroundSync, adapter,
      staleness, realtime>>

PendingI(c) ==
    c \in DOMAIN infiniteRequests /\ infiniteRequests[c].outcome = "pending"

\* one render of a component that calls useInfiniteQuery: the entry is
\* created, an idle entry starts the initial fetch.  prefetchInfiniteQuery
\* does the same for a key without entry.
UseInfiniteQuery(initialPageParam) ==
    /\ InstallI(IF infiniteDataCache.status \in {"absent", "idle"}
                THEN fetchInitialPage(CurI, initialPageParam) ELSE CurI)
    /\ UNCHANGED exceptInfinite

\* fetchNextPage() / fetchPreviousPage() of a useInfiniteQuery result
FetchInfinitePage(direction) ==
    /\ InstallI(fetchInfinitePage(CurI, direction))
    /\ UNCHANGED exceptInfinite

\* refetch() of a useInfiniteQuery result
RefetchInfiniteQuery ==
    /\ InstallI(refetchInfiniteQuery(CurI))
    /\ UNCHANGED exceptInfinite

\* invalidateInfiniteQuery(key), and clearInfiniteCache() with its one key
InvalidateInfiniteQuery ==
    /\ infiniteDataCache.status # "absent"
    /\ infiniteDataCache' = InfiniteAbsent
    /\ infiniteRequests' =
          abortController(infiniteRequests, infiniteDataCache.controller)
    /\ UNCHANGED exceptInfinite

\* the fn call request c awaits fulfils
InfiniteResolves(c, hasMore) ==
    /\ PendingI(c)
    /\ LET r == infiniteRequests[c]
       IN InstallI(infiniteFulfilled(CurI, c,
                      InfinitePage(AwaitedPageParam(r), hasMore)))
    /\ UNCHANGED exceptInfinite

\* the fn call request c awaits rejects, with a non-abort error or, once its
\* signal has fired, with an AbortError
InfiniteRejects(c, error) ==
    /\ PendingI(c)
    /\ IsAbortError(error) => infiniteRequests[c].aborted
    /\ InstallI(infiniteRejected(CurI, c, error))
    /\ UNCHANGED exceptInfinite

NextInfinite ==
    \/ \E p \in InitialPageParams : UseInfiniteQuery(p)
    \/ \E d \in {"next", "previous"} : FetchInfinitePage(d)
    \/ RefetchInfiniteQuery
    \/ InvalidateInfiniteQuery
    \/ \E c \in 1..MaxInfiniteRequests, h \in HasMore : InfiniteResolves(c, h)
    \/ \E c \in 1..MaxInfiniteRequests, e \in Errors \cup {AbortError} :
          InfiniteRejects(c, e)

SpecInfinite == Init /\ [][NextInfinite]_vars

\* ------------------------------------------------------ updateOptimistically
MaxMutations == 2        \* mutationFn invocations in one behaviour

\* The payloads are objects with one and the same field (v1 = { likes: 1 },
\* v2 = { likes: 2 }); a patch is one of them or the empty object.
EmptyObject == "{}"
Patches == Values \cup {EmptyObject}

\* { ...payload, ...optimisticData }: the fields of the patch win; null or
\* an Error object contribute no field
Merge(payload, patch) ==
    IF patch # EmptyObject THEN patch
    ELSE IF payload \in Values THEN payload
    ELSE EmptyObject

\* the fetches of key k that have settled
SettledFetches(k) ==
    {c \in DOMAIN fetches : fetches[c].key = k /\ fetches[c].outcome # "pending"}

\* one mutationFn() call: who made it (the updateOptimistically of
\* formatDataResponse: "response", or the one useData returns: "hook"), the
\* data the hook closure holds for the rollback, and for the record the
\* payload read when it was made, the fetches started and settled by then,
\* and how it ended
Mutation(k, via, data, patch) ==
    [key |-> k, via |-> via, data |-> data, patch |-> patch,
     payload |-> dataCache[k].payload,
     started |-> Len(fetches), settled |-> SettledFetches(k),
     outcome |-> "pending"]

\* dataCache.set(key, { ...state, optimisticData: undefined, status: "success" })
OverlayCleared(state) ==
    [state EXCEPT !.optimisticData = Null, !.status = "success"]

\* dataCache.set(key, { ...currentState, optimisticData: updatedData,
\*                      status: "isRefetching" })
OverlayApplied(currentState, patch) ==
    [currentState EXCEPT
        !.optimisticData = Merge(currentState.payload, patch),
        !.status = "isRefetching"]

exceptOptimistic ==
    <<background, now, ticks, rm, universalVars, infiniteVars, backgroundSync,
      adapter, staleness, realtime>>

\* one render of a component that calls useData with
\* options.optimisticUpdates and no other option: the OptimisticUpdateManager
\* exists and the closures of the result hold the data read by this render
UseDataOptimistic(k) ==
    LET S == useData(Cur, k, defaultStaleTime, FALSE, FALSE) IN
    /\ Install(S)
    /\ hook' = [hook EXCEPT ![k] = CurrentStatus(S.cache, k)]
    /\ hookData' = [hookData EXCEPT
                      ![k] = IF Has(dataCache, k) THEN dataCache[k]
                             ELSE IdleEntry]
    /\ UNCHANGED <<mutations, exceptOptimistic>>

\* updateOptimistically(optimisticData, mutationFn) of a formatDataResponse
\* result
ResponseUpdateOptimistically(k, patch) ==
    LET currentState == dataCache[k] IN
    /\ Has(dataCache, k) /\ currentState.status = "success"
    /\ Len(mutations) < MaxMutations
    /\ dataCache' = [dataCache EXCEPT ![k] = OverlayApplied(currentState, patch)]
    /\ mutations' = Append(mutations,
                           Mutation(k, "response", currentState, patch))
    /\ events' = events + 1
    /\ UNCHANGED <<fetches, hook, hookData, exceptOptimistic>>

\* updateOptimistically(optimisticData, mutationFn) of a useData result:
\* OptimisticUpdateManager.updateOptimistically calls mutationFn and keeps
\* the rollback function; the cache is not written
HookUpdateOptimistically(k, patch) ==
    /\ hookData[k].status = "success"
    /\ Len(mutations) < MaxMutations
    /\ mutations' = Append(mutations, Mutation(k, "hook", hookData[k], patch))
    /\ UNCHANGED <<dataCache, fetches, events, hook, hookData,
                   exceptOptimistic>>

PendingMutation(m) ==
    m \in DOMAIN mutations /\ mutations[m].outcome = "pending"

\* the .then() / .catch() of formatDataResponse's mutationFn() call
overlaySettled(cache, k) ==
    IF Has(cache, k) THEN [cache EXCEPT ![k] = OverlayCleared(@)] ELSE cache

\* the rollback function useData hands to the manager:
\* dataCache.set(key, { ...data, optimisticData: undefined, status: "success" })
rollback(cache, k, data) == [cache EXCEPT ![k] = OverlayCleared(data)]

\* mutationFn() of mutation m fulfils
MutationResolves(m) ==
    /\ PendingMutation(m)
    /\ mutations' = [mutations EXCEPT ![m].outcome = "fulfilled"]
    /\ dataCache' = IF mutations[m].via = "response"
                    THEN overlaySettled(dataCache, mutations[m].key)
                    ELSE dataCache
    /\ UNCHANGED <<fetches, events, hook, hookData, exceptOptimistic>>

\* mutationFn() of mutation m rejects
MutationRejects(m) ==
    /\ PendingMutation(m)
    /\ mutations' = [mutations EXCEPT ![m].outcome = "rejected"]
    /\ dataCache' = IF mutations[m].via = "response"
                    THEN overlaySettled(dataCache, mutations[m].key)
                    ELSE rollback(dataCache, mutations[m].key,
                                  mutations[m].data)
    /\ events' = IF mutations[m].via = "response" THEN events ELSE events + 1
    /\ UNCHANGED <<fetches, hook, hookData, exceptOptimistic>>

NextOptimistic ==
    \/ \E k \in Keys : UseDataOptimistic(k)
    \/ \E k \in Keys, q \in Patches : ResponseUpdateOptimistically(k, q)
    \/ \E k \in Keys, q \in Patches : HookUpdateOptimistically(k, q)
    \/ \E m \in 1..MaxMutations : MutationResolves(m)
    \/ \E m \in 1..MaxMutations : MutationRejects(m)
    \/ \E k \in Keys, r \in BOOLEAN : PrefetchData(k, r)
    \/ \E c \in 1..MaxFetches, v \in Values : Resolve(c, v)
    \/ \E c \in 1..MaxFetches, e \in Errors : Reject(c, e)
    \/ \E c \in 1..MaxFetches : RejectAborted(c)

SpecOptimistic == Init /\ [][NextOptimistic]_vars

\* ------------------------------------------ BackgroundSyncManager methods
MaxTimers == 3           \* setInterval calls in one behaviour
MaxSyncs == 3            \* config.onSync invocations in one behaviour

\* private sync(): if (!config.enabled || !_isOnline) return;
\*                 config.onSync?.(null)
sync(m, caller) ==
    IF ~m.config.enabled \/ ~m.isOnline THEN m
    ELSE [m EXCEPT !.syncs = @ + 1, !.trigger = caller]

\* faulty variant: the online listener only records the new state
onlineListenerWithoutSync(m) == [m EXCEPT !.isOnline = TRUE]

\* the 'online' listener: this._isOnline = true; this.sync()
onlineListener(m) == sync([m EXCEPT !.isOnline = TRUE], "online")

\* the 'offline' listener: this._isOnline = false
offlineListener(m) == [m EXCEPT !.isOnline = FALSE]

\* faulty variant: the running timer is not cleared
clearExistingSkipped(m) == m

\* if (this.syncInterval) clearInterval(this.syncInterval)
clearExisting(m) ==
    IF m.syncInterval # 0
    THEN [m EXCEPT !.timers = {t \in @ : t.id # m.syncInterval}]
    ELSE m

\* startSync(interval = 30000): clear the running timer, then setInterval
Intervals == {30000, 5000}
startSync(m, interval) ==
    LET id == m.created + 1 IN
    [clearExisting(m) EXCEPT
        !.timers = @ \cup {[id |-> id, interval |-> interval]},
        !.syncInterval = id, !.created = id, !.lastCall = "startSync"]

\* stopSync(): if (this.syncInterval) { clearInterval(...); = undefined }
stopSync(m) ==
    [clearExisting(m) EXCEPT !.syncInterval = 0, !.lastCall = "stopSync"]

\* the callback of the interval: if (this._isOnline) this.sync()
intervalCallback(m) == IF m.isOnline THEN sync(m, "interval") ELSE m

exceptBackgroundSync ==
    <<dataVars, rm, universalVars, infiniteVars, optimisticVars, adapter,
      staleness, realtime>>

StartSync(interval) ==
    /\ backgroundSync.created < MaxTimers
    /\ backgroundSync' = startSync(backgroundSync, interval)
    /\ UNCHANGED exceptBackgroundSync

StopSync ==
    /\ backgroundSync' = stopSync(backgroundSync)
    /\ UNCHANGED exceptBackgroundSync

\* an active interval timer of the page fires
IntervalTick(id) ==
    /\ \E t \in backgroundSync.timers : t.id = id
    /\ backgroundSync.syncs < MaxSyncs
    /\ backgroundSync' = intervalCallback(backgroundSync)
    /\ UNCHANGED exceptBackgroundSync

\* the browser goes online and dispatches 'online'
Online ==
    /\ ~backgroundSync.isOnline
    /\ backgroundSync.syncs < MaxSyncs
    /\ backgroundSync' = onlineListener(backgroundSync)
    /\ UNCHANGED exceptBackgroundSync

\* the browser goes offline and dispatches 'offline'
Offline ==
    /\ backgroundSync.isOnline
    /\ backgroundSync' = offlineListener(backgroundSync)
    /\ UNCHANGED exceptBackgroundSync

\* a manager with either setting of config.enabled, constructed online or
\* offline
InitSync ==
    /\ dataCache = [k \in Keys |-> NoEntry]
    /\ fetches = <<>>
    /\ events = 0
    /\ hook = [k \in Keys |-> "none"]
    /\ background = {}
    /\ now = 1
    /\ ticks = 0
    /\ rm = RetryManager(createRetryManager)
    /\ InitUniversal /\ InitInfinite /\ InitOptimistic /\ InitAdapter
    /\ InitStaleness /\ InitRealtime
    /\ backgroundSync \in
          {BackgroundSyncManager([enabled |-> e], o) :
              e \in BOOLEAN, o \in BOOLEAN}

NextSync ==
    \/ \E i \in Intervals : StartSync(i)
    \/ StopSync
    \/ \E id \in 1..MaxTimers : IntervalTick(id)
    \/ Online
    \/ Offline

SpecSync == InitSync /\ [][NextSync]_vars

\* ------------------------------- PaginationAdapters.offsetBased(), applied
MaxPage == 2             \* largest page number in a response or parameter

\* the responses and parameters getNextPageParam is applied to
AdapterResponses ==
    {PageResponse(tp, cp, h, pg, d) :
        tp \in 0..MaxPage, cp \in 0..MaxPage,
        h \in {"true", "false", "undefined"},
        pg \in 0..MaxPage, d \in {<<>>, <<1>>}}
AdapterPageParams == {Undefined} \cup 1..MaxPage

exceptAdapter ==
    <<dataVars, rm, universalVars, infiniteVars, optimisticVars,
      backgroundSync, staleness, realtime>>

\* options.getNextPageParam(response, allResponses, currentPageParam)
CallGetNextPageParam ==
    /\ adapter.stage = "input"
    /\ adapter' = [adapter EXCEPT
                     !.stage = "called",
                     !.result = getNextPageParam(adapter.response,
                                                 adapter.currentPageParam)]
    /\ UNCHANGED exceptAdapter

\* a render of useUniversalInfiniteQuery whose state has the response as its
\* only page, loaded with the parameter
RenderHasNextPage ==
    /\ adapter.stage = "called"
    /\ adapter' = [adapter EXCEPT
                     !.stage = "rendered",
                     !.hasNextPage =
                        hasNextPage([UniversalIdle EXCEPT
                           !.status = "success",
                           !.pages = <<adapter.response>>,
                           !.pageParams = <<adapter.currentPageParam>>])]
    /\ UNCHANGED exceptAdapter

InitAdapterUse ==
    /\ dataCache = [k \in Keys |-> NoEntry]
    /\ fetches = <<>>
    /\ events = 0
    /\ hook = [k \in Keys |-> "none"]
    /\ background = {}
    /\ now = 1
    /\ ticks = 0
    /\ rm = RetryManager(createRetryManager)
    /\ InitUniversal /\ InitInfinite /\ InitOptimistic /\ InitBackgroundSync
    /\ InitStaleness /\ InitRealtime
    /\ adapter \in {AdapterUse(r, p) :
                      r \in AdapterResponses, p \in AdapterPageParams}

NextAdapter ==
    \/ CallGetNextPageParam
    \/ RenderHasNextPage

SpecAdapter == InitAdapterUse /\ [][NextAdapter]_vars

\* ------------------------------------------------------ isStale evaluated
\* options.staleTime: 0, the default, and Infinity ("never stale"), which
\* is larger than every value of the clock
NeverStale == 1000000000
StaleTimeOptions == {0, defaultStaleTime, NeverStale}

\* data.timestamp: undefined (0), or the time of a write
Timestamps == {0, 1, defaultStaleTime}

\* Date.now() at the render
RenderTimes ==
    {1, defaultStaleTime - 1, defaultStaleTime, defaultStaleTime + 1, 2 * defaultStaleTime,
     2 * defaultStaleTime + 1, 1000000}

exceptStaleness ==
    <<dataVars, rm, universalVars, infiniteVars, optimisticVars,
      backgroundSync, adapter, realtime>>

\* const isStale = Date.now() - (data.timestamp || 0) >
\*                 (options.staleTime ?? defaultStaleTime)
EvaluateIsStale ==
    /\ staleness.stage = "input"
    /\ staleness' = [staleness EXCEPT
                       !.stage = "evaluated",
                       !.isStale = IsStale(staleness.timestamp,
                                           staleness.staleTime, staleness.now)]
    /\ UNCHANGED exceptStaleness

InitStale ==
    /\ dataCache = [k \in Keys |-> NoEntry]
    /\ fetches = <<>>
    /\ events = 0
    /\ hook = [k \in Keys |-> "none"]
    /\ background = {}
    /\ now = 1
    /\ ticks = 0
    /\ rm = RetryManager(createRetryManager)
    /\ InitUniversal /\ InitInfinite /\ InitOptimistic /\ InitBackgroundSync
    /\ InitAdapter /\ InitRealtime
    /\ staleness \in {v \in {StaleEvaluation(ts, st, t) :
                                ts \in Timestamps, st \in StaleTimeOptions,
                                t \in RenderTimes} : v.now >= v.timestamp}

NextStale == EvaluateIsStale

SpecStale == InitStale /\ [][NextStale]_vars

\* ------------------------------------------------- RealtimeManager in use
MaxSockets == 3          \* WebSockets created in one behaviour

\* new WebSocket(url): connecting; closeRequested records a close() call
WebSocket == [readyState |-> "connecting", closeRequested |-> FALSE]

\* WebSocket.close(): nothing on a closing or closed socket, otherwise the
\* closing handshake starts; the close event follows later
close(socket) ==
    IF socket.readyState \in {"closing", "closed"} THEN socket
    ELSE [socket EXCEPT !.readyState = "closing", !.closeRequested = TRUE]

\* connect(): if (!enabled || !subscriptionUrl) return;
\*            this.ws = new WebSocket(url), with its four handlers
connect(m) ==
    IF ~m.config.enabled \/ ~m.config.subscriptionUrl THEN m
    ELSE [m EXCEPT !.sockets = Append(@, WebSocket),
                   !.ws = Len(m.sockets) + 1]

\* ws.onopen: this.reconnectAttempts = 0
onopen(m, id) ==
    [m EXCEPT !.sockets[id].readyState = "open", !.reconnectAttempts = 0]

\* the delay attemptReconnect computes for an attempt
ReconnectDelay(attempt) == reconnectDelay * 2 ^ (attempt - 1)

\* attemptReconnect(): up to maxReconnectAttempts, setTimeout(connect, delay)
attemptReconnect(m) ==
    IF m.reconnectAttempts >= maxReconnectAttempts THEN m
    ELSE [m EXCEPT !.reconnectAttempts = @ + 1,
                   !.timers = Append(@, ReconnectDelay(m.reconnectAttempts + 1))]

\* ws.onclose: onDisconnect(), then attemptReconnect()
onclose(m, id) ==
    attemptReconnect([m EXCEPT !.sockets[id].readyState = "closed"])

\* disconnect(): if (this.ws) { this.ws.close(); this.ws = undefined }
disconnect(m) ==
    IF m.ws # 0
    THEN [m EXCEPT !.sockets[m.ws] = close(@), !.ws = 0]
    ELSE m

\* a sequence without its i-th element
RemoveAt(seq, i) == SubSeq(seq, 1, i - 1) \o SubSeq(seq, i + 1, Len(seq))

exceptRealtime ==
    <<dataVars, rm, universalVars, infiniteVars, optimisticVars,
      backgroundSync, adapter, staleness>>

\* the application calls connect()
Connect ==
    /\ Len(realtime.sockets) < MaxSockets
    /\ realtime' = [connect(realtime) EXCEPT !.lastCall = "connect"]
    /\ UNCHANGED exceptRealtime

\* the application calls disconnect()
Disconnect ==
    /\ realtime' = [disconnect(realtime) EXCEPT !.lastCall = "disconnect"]
    /\ UNCHANGED exceptRealtime

\* the connection of socket id is established: its open event
SocketOpens(id) ==
    /\ id \in DOMAIN realtime.sockets
    /\ realtime.sockets[id].readyState = "connecting"
    /\ realtime' = onopen(realtime, id)
    /\ UNCHANGED exceptRealtime

\* the close event of socket id: the connection failed or was lost, or the
\* closing handshake close() started has ended
SocketCloses(id) ==
    /\ id \in DOMAIN realtime.sockets
    /\ realtime.sockets[id].readyState # "closed"
    /\ realtime' = onclose(realtime, id)
    /\ UNCHANGED exceptRealtime

\* a reconnection timeout expires: () => { this.connect() }
ReconnectTimer(i) ==
    /\ i \in DOMAIN realtime.timers
    /\ Len(realtime.sockets) < MaxSockets
    /\ realtime' = connect([realtime EXCEPT !.timers = RemoveAt(@, i)])
    /\ UNCHANGED exceptRealtime

\* a manager with either setting of config.enabled, with or without a
\* subscriptionUrl
InitRealtimeUse ==
    /\ dataCache = [k \in Keys |-> NoEntry]
    /\ fetches = <<>>
    /\ events = 0
    /\ hook = [k \in Keys |-> "none"]
    /\ background = {}
    /\ now = 1
    /\ ticks = 0
    /\ rm = RetryManager(createRetryManager)
    /\ InitUniversal /\ InitInfinite /\ InitOptimistic /\ InitBackgroundSync
    /\ InitAdapter /\ InitStaleness
    /\ realtime \in {RealtimeManager([enabled |-> e, subscriptionUrl |-> u]) :
                        e \in BOOLEAN, u \in BOOLEAN}

NextRealtime ==
    \/ Connect
    \/ Disconnect
    \/ \E id \in 1..MaxSockets : SocketOpens(id)
    \/ \E id \in 1..MaxSockets : SocketCloses(id)
    \/ \E i \in 1..MaxSockets : ReconnectTimer(i)

SpecRealtime == InitRealtimeUse /\ [][NextRealtime]_vars

\* ------------------------------------------------ PaginationAdapters.custom
\* The values a caller passes as initialParam, written as JavaScript prints
\* them: not supplied, null, the numbers 0, 1 and 20, the empty string and a
\* cursor string.
InitialParams == {"undefined", "null", "0", "1", "20", "", "cursor"}

\* the values JavaScript takes for false in `x || y`
Falsy == {"undefined", "null", "0", ""}

\* config.initialParam || null
OrNull(x) == IF x \in Falsy THEN "null" ELSE x

\* the functions a caller passes, by name; getPrev may be left out
SelectFunctions == {"selectItems", "selectData"}
GetNextFunctions == {"nextOffset", "nextCursor"}
GetPrevFunctions == {"undefined", "prevOffset"}

CustomConfigs ==
    [selectData : SelectFunctions, getNext : GetNextFunctions,
     getPrev : GetPrevFunctions, initialParam : InitialParams]

\* PaginationAdapters.custom(config)
custom(config) ==
    [select |-> config.selectData,
     getNextPageParam |-> config.getNext,
     getPreviousPageParam |-> config.getPrev,
     initialPageParam |-> OrNull(config.initialParam)]

\* custom(config) about to be called ("input"), called ("built": options
\* holds what it returned), and useUniversalInfiniteQuery rendered with
\* these options on an idle entry ("rendered": requested holds the pageParam
\* fetchFn was called with)
CustomUse(config) ==
    [config |-> config, stage |-> "input",
     options |-> [select |-> "none", getNextPageParam |-> "none",
                  getPreviousPageParam |-> "none",
                  initialPageParam |-> "none"],
     requested |-> "none"]

CallCustom ==
    /\ adapter.stage = "input"
    /\ adapter' = [adapter EXCEPT !.stage = "built",
                                  !.options = custom(adapter.config)]
    /\ UNCHANGED exceptAdapter

\* if (state.status === "idle" && options.enabled !== false)
\*     fetchPage(cacheKey, fetchFn, options, options.initialPageParam, "initial")
\* and in fetchPage: fetchFn(pageParam, controller.signal, meta)
RenderCustom ==
    /\ adapter.stage = "built"
    /\ adapter' = [adapter EXCEPT
                     !.stage = "rendered",
                     !.requested = adapter.options.initialPageParam]
    /\ UNCHANGED exceptAdapter

InitCustom ==
    /\ dataCache = [k \in Keys |-> NoEntry]
    /\ fetches = <<>>
    /\ events = 0
    /\ hook = [k \in Keys |-> "none"]
    /\ background = {}
    /\ now = 1
    /\ ticks = 0
    /\ rm = RetryManager(createRetryManager)
    /\ InitUniversal /\ InitInfinite /\ InitOptimistic /\ InitBackgroundSync
    /\ InitStaleness /\ InitRealtime
    /\ adapter \in {CustomUse(c) : c \in CustomConfigs}

NextCustom ==
    \/ CallCustom
    \/ RenderCustom

SpecCustom == InitCustom /\ [][NextCustom]_vars

\* ------------------------------------------------------- the three caches
\* dataCache, universalInfiniteCache and infiniteDataCache are separate Maps
\* and no operation reads or writes two of them, so a behaviour that works
\* on one of them, the other two left as constructed, shows every
\* interleaving of the operations of that cache.
InitDataCache ==
    /\ dataCache = [k \in Keys |-> NoEntry]
    /\ fetches = <<>>
    /\ events = 0
    /\ hook = [k \in Keys |-> "none"]
    /\ background = {}
    /\ now = 1
    /\ ticks = 0

\* the operations of dataCache that start a fetch, settle one or delete the
\* entries: between them they bring an entry into each of its statuses
NextDataFetches ==
    \/ \E k \in Keys, r \in BOOLEAN : PrefetchData(k, r)
    \/ ClearDataCache
    \/ \E c \in 1..MaxFetches, v \in Values : Resolve(c, v)
    \/ \E c \in 1..MaxFetches, e \in Errors : Reject(c, e)
    \/ \E c \in 1..MaxFetches : RejectAborted(c)

NextCaches ==
    \/ InitUniversal /\ InitInfinite /\ NextDataFetches
    \/ InitDataCache /\ InitInfinite /\ NextUniversal
    \/ InitDataCache /\ InitUniversal /\ NextInfinite

SpecCaches == Init /\ [][NextCaches]_vars

\* ----------------------------------------- every fetch function call settles
\* The fetch function composes its own cancellation (a timeout of the caller)
\* and rejects invocation c with an AbortError although the signal it was
\* handed has not fired; the catch treats it as any other AbortError.
RejectSelfAborted(c) ==
    /\ Pending(c) /\ ~fetches[c].aborted
    /\ Install(settleRejected(Cur, c, AbortError))
    /\ UNCHANGED <<hook, background, now, ticks, rm, otherVars>>

\* the same for the fetchFn call request c of the universal cache awaits
UniversalSelfAborted(c) ==
    /\ PendingU(c) /\ ~universalRequests[c].aborted
    /\ InstallU(IF universalRequests[c].kind = "page"
                THEN pageFailed(CurU, c, AbortError)
                ELSE refetchFailed(CurU, c, AbortError))
    /\ UNCHANGED <<universalHook, exceptUniversal>>

\* the promise of invocation c of the data cache settles, one way or another
DataSettles(c) ==
    /\ InitUniversal /\ InitInfinite
    /\ \/ \E v \in Values : Resolve(c, v)
       \/ \E e \in Errors : Reject(c, e)
       \/ RejectAborted(c)
       \/ RejectSelfAborted(c)

\* the fetchFn call request c of the universal cache awaits settles
UniversalSettles(c) ==
    /\ InitDataCache /\ InitInfinite
    /\ \/ \E h \in HasMore : UniversalResolves(c, h)
       \/ \E e \in Errors \cup {AbortError} : UniversalRejects(c, e)
       \/ UniversalSelfAborted(c)

NextSettling ==
    \/ InitUniversal /\ InitInfinite /\ NextDataFetches
    \/ InitDataCache /\ InitInfinite /\ NextUniversal
    \/ \E c \in 1..MaxFetches :
          InitUniversal /\ InitInfinite /\ RejectSelfAborted(c)
    \/ \E c \in 1..MaxRequests :
          InitDataCache /\ InitInfinite /\ UniversalSelfAborted(c)

\* The promises are settled by the environment; that each of them is settled
\* at some time is the assumption the claim about progress is made under.
SpecSettling ==
    /\ Init /\ [][NextSettling]_vars
    /\ \A c \in 1..MaxFetches : WF_vars(DataSettles(c))
    /\ \A c \in 1..MaxRequests : WF_vars(UniversalSettles(c))

\* ================================================================== claims
\* invocation c is still unsettled and a later invocation for its key exists
Superseded(c) ==
    /\ Pending(c)
    /\ \E d \in DOMAIN fetches : d > c /\ fetches[d].key = fetches[c].key

\* the unsettled invocations for key k whose signal has not been triggered
LiveFetches(k) ==
    {c \in DOMAIN fetches :
        fetches[c].key = k /\ Pending(c) /\ ~fetches[c].aborted}

\* C1 (as claimed): at every instant each key has at most one fetch that was
\* started, has not settled and has not been aborted.
C1_AtMostOneLiveFetch == \A k \in Keys : Cardinality(LiveFetches(k)) <= 1

\* C2 (as claimed): the settlement of a fetch that was superseded while
\* unsettled leaves the entry of its key unchanged.
C2_LateSettlementIgnored ==
    [][\A c \in DOMAIN fetches :
          (Superseded(c) /\ fetches'[c].outcome # "pending")
              => dataCache'[fetches[c].key] = dataCache[fetches[c].key]]_vars

\* C3 (as claimed): when a superseded fetch rejects with an AbortError, no
\* "dataFetched" event is dispatched for it.
C3_CancellationSilent ==
    [][\A c \in DOMAIN fetches :
          (Superseded(c) /\ RejectAborted(c)) => events' = events]_vars

\* C4: a useData pass with default options on an absent or idle entry starts
\* exactly one fetch and leaves the entry Loading; a pass on a Loading entry
\* starts nothing and changes nothing, so N passes before the fetch settles
\* invoke the fetch function once.
C4_IdempotentEnsure ==
    [][\A k \in Keys :
          UseData(k, defaultStaleTime, FALSE, FALSE) =>
             /\ dataCache[k].status \in {"absent", "idle"} =>
                   /\ Len(fetches') = Len(fetches) + 1
                   /\ dataCache'[k].status = "loading"
             /\ dataCache[k].status = "loading" =>
                   /\ fetches' = fetches
                   /\ dataCache' = dataCache]_vars

\* C4 witness: passes have run on the key, one fetch was started and it is
\* still in flight.
C4_Witness ==
    \E k \in Keys :
        /\ hook[k] = "loading"
        /\ dataCache[k].status = "loading"
        /\ Len(fetches) = 1 /\ Pending(1)

\* the documented lifecycle; an absent entry counts as Idle
Lifecycle ==
    {<<"idle", "loading">>, <<"loading", "success">>, <<"loading", "error">>,
     <<"success", "isRefetching">>, <<"isRefetching", "success">>,
     <<"isRefetching", "error">>, <<"error", "loading">>,
     <<"error", "isRefetching">>}

\* C5 (as claimed): every change of the status of an entry is a transition of
\* the documented lifecycle.
C5_LifecycleOnly ==
    [][\A k \in Keys :
          (Has(dataCache', k) /\ dataCache'[k].status # dataCache[k].status)
              => <<CurrentStatus(dataCache, k), dataCache'[k].status>>
                     \in Lifecycle]_vars

\* C6 (as claimed): when a Success entry enters isRefetching, a read still
\* returns the payload fetched before.
C6_RefetchKeepsData ==
    [][\A k \in Keys :
          (dataCache[k].status = "success"
              /\ dataCache'[k].status = "isRefetching")
              => StatusResponse(dataCache'[k]).data = dataCache[k].payload]_vars

\* a render with refetchOnMount and the default staleTime refetched
RefetchedOnMount(k) ==
    /\ UseData(k, defaultStaleTime, TRUE, FALSE)
    /\ Len(fetches') = Len(fetches) + 1

\* C7 (as claimed): a Success entry fetched at t0 is found stale by a render
\* at t exactly when t - t0 >= 5000.
C7_StaleFromFiveSeconds ==
    [][\A k \in Keys :
          (dataCache[k].status = "success"
              /\ UseData(k, defaultStaleTime, TRUE, FALSE))
              => (RefetchedOnMount(k)
                    <=> now - dataCache[k].timestamp >= defaultStaleTime)]_vars

\* C7 (amended): a Success entry fetched at t0 is found stale by a render at
\* t exactly when t - t0 > 5000; at t - t0 = 5000 it is still fresh.
C7_StaleAfterFiveSeconds ==
    [][\A k \in Keys :
          (dataCache[k].status = "success"
              /\ UseData(k, defaultStaleTime, TRUE, FALSE))
              => (RefetchedOnMount(k)
                    <=> now - dataCache[k].timestamp > defaultStaleTime)]_vars

\* C7 witness: a Success entry is exactly 5000 ms old, was rendered, and no
\* refetch was started.
C7_Witness ==
    \E k \in Keys :
        /\ dataCache[k].status = "success"
        /\ now - dataCache[k].timestamp = defaultStaleTime
        /\ hook[k] = "success"

\* C8: the first pass on an absent key leaves the entry Loading with payload
\* null; when that fetch then resolves with v the entry is Success with
\* payload v and timestamp set to the time of resolution.
C8_EnsureThenResolve ==
    [][\A k \in Keys :
          /\ (~Has(dataCache, k) /\ UseData(k, defaultStaleTime, FALSE, FALSE))
                => /\ dataCache'[k].status = "loading"
                   /\ dataCache'[k].payload = Null
                   /\ StatusResponse(dataCache'[k]).isLoading
                   /\ StatusResponse(dataCache'[k]).data = Null
          /\ \A v \in Values :
                (/\ dataCache[k].status = "loading"
                 /\ Resolve(dataCache[k].controller, v))
                => /\ dataCache'[k].status = "success"
                   /\ dataCache'[k].payload = v
                   /\ dataCache'[k].timestamp = now
                   /\ dataCache'[k].timestamp > 0
                   /\ StatusResponse(dataCache'[k]).data = v]_vars

\* C8 witness: the single fetch started by the first pass has resolved.
C8_Witness ==
    \E k \in Keys :
        /\ hook[k] = "loading"
        /\ Len(fetches) = 1 /\ ~Pending(1)
        /\ dataCache[k].status = "success"
        /\ dataCache[k].payload = "v1"
        /\ dataCache[k].timestamp > 1

\* C9: when the current fetch of a key rejects with a non-abort error, the
\* entry becomes Error with that error as payload, one event is dispatched
\* and the hook response has error = the error, data = null, isLoading false.
C9_ErrorCaptured ==
    [][\A k \in Keys, e \in Errors :
          (/\ dataCache[k].controller # 0
           /\ Reject(dataCache[k].controller, e))
          => /\ dataCache'[k].status = "error"
             /\ dataCache'[k].payload = e
             /\ events' = events + 1
             /\ StatusResponse(dataCache'[k]) =
                   [isLoading |-> FALSE, data |-> Null, error |-> e,
                    isRefetching |-> FALSE]]_vars

\* C9 witness: an entry is in Error with the raised error and an event was
\* dispatched.
C9_Witness ==
    \E k \in Keys :
        /\ dataCache[k].status = "error"
        /\ dataCache[k].payload = "e2"
        /\ events >= 1

\* the waits the claim prescribes after the first j failures
ClaimedWaits(config, j) ==
    [i \in 1..j |->
        IF config.exponentialBackoff THEN config.delay * 2 ^ (i - 1)
        ELSE config.delay]

\* what C10 says of the invocations and waits of a run, state by state
BackoffSequence ==
    LET n == rm.config.attempts IN
    /\ rm.pc = "sleep" =>
          /\ rm.calls < n
          /\ rm.waits = ClaimedWaits(rm.config, rm.calls)
    /\ rm.pc = "fn" => rm.waits = ClaimedWaits(rm.config, rm.calls - 1)
    /\ (rm.pc = "rejected" /\ n >= 1) =>
          /\ rm.calls = n
          /\ rm.waits = ClaimedWaits(rm.config, n - 1)
          /\ rm.result \in Errors
    /\ (rm.pc = "rejected" /\ rm.config = [attempts |-> 3, delay |-> 100,
                                           exponentialBackoff |-> TRUE])
          => rm.calls = 3 /\ rm.waits = <<100, 200>>

\* C10: an execute() with attempts = n >= 1 whose function fails every time
\* invokes it exactly n times, waits d*2^(k-1) (d without exponential
\* backoff) after the k-th failure for k < n, does not wait after the n-th
\* and rejects with the error of the last invocation (n = 3, d = 100: waits
\* 100 then 200, rejected after 3 invocations).
C10_BackoffSequence ==
    /\ []BackoffSequence
    /\ [][\A e \in Errors :
             (FnRejects(e) /\ rm'.pc = "rejected") => rm'.result = e]_vars

\* C10 witness: attempts 3, delay 100, exponential: rejected after three
\* invocations and waits of 100 and 200.
C10_Witness ==
    /\ rm.pc = "rejected"
    /\ rm.config = [attempts |-> 3, delay |-> 100, exponentialBackoff |-> TRUE]
    /\ rm.calls = 3
    /\ rm.waits = <<100, 200>>
    /\ rm.result = "e2"

\* C11 (as claimed): a prefetchData call with retryConfig {attempts: n} whose
\* fetch function fails with a non-abort error on every call invokes it n
\* times before the entry settles in Error.
C11_RetriedUntilExhausted ==
    \A k \in Keys :
        (/\ rm.pc # "idle"
         /\ dataCache[k].status = "error"
         /\ fetches[Len(fetches)].outcome = "rejected")
        => rm.calls = rm.config.attempts

\* C12: in every reachable state of the universal infinite cache, pages and
\* pageParams of the entry have the same length.
C12_PagesMatchParams ==
    Len(universalInfiniteCache.pages) = Len(universalInfiniteCache.pageParams)

\* C12 witness: pages were added at both ends and a later request failed;
\* the entry holds three pages.
C12_Witness ==
    /\ Len(universalInfiniteCache.pages) = 3
    /\ \E c \in DOMAIN universalRequests :
          universalRequests[c].direction = "previous"
             /\ universalRequests[c].outcome = "fulfilled"

\* page fetch a is unsettled and a later fetchPage or refetchAll call exists
SupersededU(a) ==
    /\ PendingU(a) /\ universalRequests[a].kind = "page"
    /\ \E b \in DOMAIN universalRequests : b > a

\* C14 (as claimed): a page fetch that is unsettled when another page fetch
\* or a refetch starts is aborted, and its later settlement adds no page and
\* leaves status, error and controller of the entry as they are.
C14_SupersededPageFetchDropped ==
    /\ [](\A a \in DOMAIN universalRequests :
             SupersededU(a) => universalRequests[a].aborted)
    /\ [][\A a \in DOMAIN universalRequests :
             (SupersededU(a) /\ universalRequests'[a].outcome # "pending")
             => /\ universalInfiniteCache'.pages = universalInfiniteCache.pages
                /\ universalInfiniteCache'.pageParams =
                      universalInfiniteCache.pageParams
                /\ universalInfiniteCache'.status =
                      universalInfiniteCache.status
                /\ universalInfiniteCache'.error = universalInfiniteCache.error
                /\ universalInfiniteCache'.controller =
                      universalInfiniteCache.controller]_vars

\* C13 (as claimed): a non-abort failure of the initial page fetch, of a
\* next / previous page fetch or of a refetch of the infinite cache sets
\* status Error and leaves pages and pageParams as they were before the
\* failed request, equal in length.
C13_FailureKeepsPages ==
    [][\A c \in DOMAIN infiniteRequests, e \in Errors :
          InfiniteRejects(c, e)
          => /\ infiniteDataCache'.status = "error"
             /\ infiniteDataCache'.pages = infiniteRequests[c].currentState.pages
             /\ infiniteDataCache'.pageParams =
                   infiniteRequests[c].currentState.pageParams
             /\ Len(infiniteDataCache'.pages) =
                   Len(infiniteDataCache'.pageParams)]_vars

\* what a read of key k returns in the next state
ReadAfter(k) == StatusResponse(dataCache'[k]).data

\* C15 (as claimed): updateOptimistically(patch, mutationFn) on a Success
\* entry with payload p makes an immediate read return p merged with patch;
\* when mutationFn rejects and no fetch of the key has settled meanwhile, a
\* read returns p again and the status is Success.
C15_OverlayThenRollback ==
    [][\A k \in Keys :
          /\ \A q \in Patches :
                (/\ dataCache[k].status = "success"
                 /\ dataCache[k].payload \in Values
                 /\ (ResponseUpdateOptimistically(k, q)
                        \/ HookUpdateOptimistically(k, q)))
                => ReadAfter(k) = Merge(dataCache[k].payload, q)
          /\ \A m \in DOMAIN mutations :
                (/\ mutations[m].key = k
                 /\ mutations[m].payload \in Values
                 /\ MutationRejects(m)
                 /\ SettledFetches(k) = mutations[m].settled)
                => /\ ReadAfter(k) = mutations[m].payload
                   /\ dataCache'[k].status = "success"]_vars

\* a fetch of the key of mutation m started or settled, or a later
\* updateOptimistically wrote its overlay, after m was started
NewerState(m) ==
    LET k == mutations[m].key IN
    \/ \E c \in DOMAIN fetches : c > mutations[m].started /\ fetches[c].key = k
    \/ SettledFetches(k) # mutations[m].settled
    \/ \E n \in DOMAIN mutations :
          n > m /\ mutations[n].key = k /\ mutations[n].via = "response"

\* C16 (as claimed): when a mutation settles after a fetch of its key started
\* or settled, or after a second updateOptimistically was applied, the entry
\* (status, payload, timestamp, overlay) stays as the newer operation wrote it.
C16_SettlementKeepsNewerState ==
    [][\A m \in DOMAIN mutations :
          (/\ NewerState(m)
           /\ (MutationResolves(m) \/ MutationRejects(m)))
          => dataCache'[mutations[m].key] = dataCache[mutations[m].key]]_vars

\* C17: after any sequence of startSync / stopSync calls at most one
\* interval timer is active, one is active exactly when the last call was
\* startSync, and stopSync on a stopped manager changes nothing.
C17_StartStopSymmetric ==
    /\ [](/\ Cardinality(backgroundSync.timers) <= 1
          /\ backgroundSync.timers # {}
                <=> backgroundSync.lastCall = "startSync"
          /\ \A t \in backgroundSync.timers :
                t.id = backgroundSync.syncInterval)
    /\ [][(StopSync /\ backgroundSync.lastCall # "startSync")
             => backgroundSync' =
                   [backgroundSync EXCEPT !.lastCall = "stopSync"]]_vars

\* C17 witness: startSync was called three times, twice in a row, with a
\* stopSync in between, and one timer is active.
C17_Witness ==
    /\ backgroundSync.created = 3
    /\ backgroundSync.lastCall = "startSync"
    /\ backgroundSync.timers = {[id |-> 3, interval |-> 30000]}

\* C18: the sync callback is never invoked while the manager is offline, and
\* whenever a started, enabled manager goes from offline to online the
\* callback is invoked in that very step.
C18_SyncOnlyOnlineAndOnReconnect ==
    [][/\ backgroundSync'.syncs # backgroundSync.syncs
            => backgroundSync'.isOnline
       /\ (~backgroundSync.isOnline /\ ~Online) =>
             backgroundSync'.syncs = backgroundSync.syncs
       /\ (/\ Online
           /\ backgroundSync.timers # {}
           /\ backgroundSync.config.enabled)
            => backgroundSync'.syncs = backgroundSync.syncs + 1]_vars

\* C18 witness: a started, enabled manager has synced once, and that on
\* coming back online.
C18_Witness ==
    /\ backgroundSync.config.enabled
    /\ backgroundSync.timers # {}
    /\ backgroundSync.isOnline
    /\ backgroundSync.syncs = 1
    /\ backgroundSync.trigger = "online"

\* C19: for a response that carries hasMore and no totalPages / currentPage
\* pair, offsetBased().getNextPageParam returns currentPageParam + 1 when
\* hasMore is true and undefined when it is false (hasMore true with
\* parameter 1: 2), and hasNextPage is true in the first case, false in the
\* second.
C19_OffsetBasedHasMore ==
    LET r == adapter.response
        p == adapter.currentPageParam
    IN (/\ r.hasMore # "undefined"
        /\ ~(r.totalPages # 0 /\ r.currentPage # 0)
        /\ p # Undefined)
       => /\ adapter.stage # "input" =>
                /\ r.hasMore = "true" => adapter.result = p + 1
                /\ r.hasMore = "false" => adapter.result = Undefined
                /\ (r.hasMore = "true" /\ p = 1) => adapter.result = 2
          /\ adapter.stage = "rendered" =>
                (adapter.hasNextPage <=> r.hasMore = "true")

\* C19 witness: { data: [...], hasMore: true } with parameter 1 gave 2 and
\* hasNextPage true.
C19_Witness ==
    /\ adapter.response = PageResponse(0, 0, "true", 0, <<1>>)
    /\ adapter.currentPageParam = 1
    /\ adapter.stage = "rendered"
    /\ adapter.result = 2
    /\ adapter.hasNextPage

\* C20: when a fetch rejects with an AbortError, the entry of its key is left
\* exactly as it was, in the data cache, the universal infinite cache and
\* the infinite cache, whatever state the entry is in.
C20_AbortErrorWritesNothing ==
    [][/\ \A c \in DOMAIN fetches :
             RejectAborted(c) => dataCache' = dataCache
       /\ \A c \in DOMAIN universalRequests :
             UniversalRejects(c, AbortError)
                => universalInfiniteCache' = universalInfiniteCache
       /\ \A c \in DOMAIN infiniteRequests :
             InfiniteRejects(c, AbortError)
                => infiniteDataCache' = infiniteDataCache]_vars

\* a call of the list rs was aborted and has rejected with the AbortError
AbortedAndRejected(rs) == \E c \in DOMAIN rs : rs[c].outcome = "aborted"

\* C20 witness: an aborted fetch has rejected with its AbortError and the
\* entry is as the others left it: in the data cache Success, in the
\* universal infinite cache one page with the next one being fetched, in
\* the infinite cache invalidated.
C20_Witness ==
    \/ /\ AbortedAndRejected(fetches)
       /\ \E k \in Keys : dataCache[k].status = "success"
    \/ /\ AbortedAndRejected(universalRequests)
       /\ universalInfiniteCache.status = "fetchingNextPage"
       /\ Len(universalInfiniteCache.pages) = 1
    \/ /\ AbortedAndRejected(infiniteRequests)
       /\ infiniteDataCache.status = "absent"

\* C21 (as claimed): every step that changes a cache entry (start of a
\* fetch, settlement of a fetch, application and settlement of an optimistic
\* update) dispatches the "dataFetched" event in the same step.
C21_WriteThenNotify ==
    [][dataCache' # dataCache => events' > events]_vars

\* C22 (as claimed): when the mutationFn of an optimistic update fulfils, the
\* entry of its key holds no overlay afterwards and the "dataFetched" event
\* is dispatched in that step.
C22_SuccessClearsAndNotifies ==
    [][\A m \in DOMAIN mutations :
          MutationResolves(m)
          => /\ dataCache'[mutations[m].key].optimisticData = Null
             /\ events' > events]_vars

\* C23 (as claimed): when the function a retry loop awaits rejects because
\* its fetch was aborted, the loop stops: the attempt is not counted, the
\* error handler is not called, no backoff is started and the function is
\* not invoked again.
C23_CancelledAttemptStopsLoop ==
    [][FnAborted
          => /\ rm'.pc \notin {"sleep", "fn"}
             /\ rm'.currentAttempt = rm.currentAttempt
             /\ rm'.handled = rm.handled
             /\ rm'.calls = rm.calls]_vars

RefetchedInOrder(r, pageOf(_)) ==
    LET params == r.currentState.pageParams IN
    /\ Len(r.refetchedPages) <= Len(params)
    /\ \A i \in 1..Len(r.refetchedPages) : pageOf(r.refetchedPages[i]) = params[i]
    /\ r.outcome = "pending" => Len(r.refetchedPages) < Len(params)
    /\ r.outcome = "fulfilled" => Len(r.refetchedPages) = Len(params)

\* the page parameter a response was obtained for
UniversalPageOf(response) == select(response)[1]
InfinitePageOf(page) == page.page

\* C25: a refetch of an infinite entry with n >= 1 page parameters calls the
\* fetch function once per stored parameter, in index order and each call
\* after the previous one resolved; when all n have resolved, pages is
\* replaced by the n responses in that order and pageParams is the one the
\* refetch started from.
C25_RefetchSequential ==
    /\ [](/\ \A c \in DOMAIN universalRequests :
                universalRequests[c].kind = "refetch"
                   => RefetchedInOrder(universalRequests[c], UniversalPageOf)
          /\ \A c \in DOMAIN infiniteRequests :
                infiniteRequests[c].kind = "refetch"
                   => RefetchedInOrder(infiniteRequests[c], InfinitePageOf))
    /\ [][/\ \A c \in DOMAIN universalRequests :
                LET r == universalRequests[c] IN
                (/\ r.kind = "refetch" /\ r.outcome = "pending"
                 /\ universalRequests'[c].outcome = "fulfilled")
                => /\ universalInfiniteCache'.pages =
                         universalRequests'[c].refetchedPages
                   /\ universalInfiniteCache'.pageParams =
                         r.currentState.pageParams
                   /\ universalInfiniteCache'.status = "success"
          /\ \A c \in DOMAIN infiniteRequests :
                LET r == infiniteRequests[c] IN
                (/\ r.kind = "refetch" /\ r.outcome = "pending"
                 /\ infiniteRequests'[c].outcome = "fulfilled")
                => /\ infiniteDataCache'.pages =
                         infiniteRequests'[c].refetchedPages
                   /\ infiniteDataCache'.pageParams = r.currentState.pageParams
                   /\ infiniteDataCache'.status = "success"]_vars

\* C25 witness: a refetch of two stored pages (universal cache) or of one
\* (infinite cache) has completed and its responses are the pages.
C25_Witness ==
    \/ \E c \in DOMAIN universalRequests :
          LET r == universalRequests[c] IN
          /\ r.kind = "refetch" /\ r.outcome = "fulfilled"
          /\ Len(r.currentState.pageParams) = 2
          /\ universalInfiniteCache.pages = r.refetchedPages
          /\ universalInfiniteCache.pageParams = r.currentState.pageParams
    \/ \E c \in DOMAIN infiniteRequests :
          LET r == infiniteRequests[c] IN
          /\ r.kind = "refetch" /\ r.outcome = "fulfilled"
          /\ infiniteDataCache.pages = r.refetchedPages
          /\ infiniteDataCache.status = "success"

\* C26 (as claimed): when a page fetch of a refetch of the universal infinite
\* cache fails with a non-abort error, the refetch fetches no further page,
\* the entry is in status Error, and the data handed to readers no longer
\* holds the pages accumulated before the refetch.
C26_FailedRefetchDiscardsPages ==
    [][\A c \in DOMAIN universalRequests, e \in Errors :
          (UniversalRejects(c, e) /\ universalRequests[c].kind = "refetch")
          => /\ universalRequests'[c].outcome = "rejected"
             /\ universalInfiniteCache'.status = "error"
             /\ flattenedData(universalInfiniteCache') = <<>>]_vars

\* C27: a result of useUniversalInfiniteQuery built from a state without
\* pages has hasNextPage false, and fetchNextPage (fetchPreviousPage) of a
\* result for whose last (first) page the resolver yields undefined starts no
\* request, aborts none and leaves the entry as it is.
C27_NoMorePagesNoFetch ==
    /\ [](/\ Len(universalHook.pages) = 0 => ~hasNextPage(universalHook)
          /\ Len(universalInfiniteCache.pages) = 0
                => ~hasNextPage(universalInfiniteCache)
          /\ ~hasNextPage(universalHook)
                => fetchNextPage(CurU, universalHook) = CurU
          /\ ~hasPreviousPage(universalHook)
                => fetchPreviousPage(CurU, universalHook) = CurU)
    /\ [][/\ (FetchNextPage /\ ~hasNextPage(universalHook))
               => UNCHANGED <<universalInfiniteCache, universalRequests>>
          /\ (FetchPreviousPage /\ ~hasPreviousPage(universalHook))
               => UNCHANGED <<universalInfiniteCache, universalRequests>>]_vars

\* C27 witness: the last render saw page 1 as its only page, the response
\* said there are no more, and a request of the entry is in flight that a
\* fetchNextPage / fetchPreviousPage of this render would have to abort.
C27_Witness ==
    /\ universalHook.pageParams = <<1>>
    /\ universalHook.status = "success"
    /\ ~hasNextPage(universalHook) /\ ~hasPreviousPage(universalHook)
    /\ universalInfiniteCache.controller # 0
    /\ PendingU(universalInfiniteCache.controller)

\* C28 (as claimed): an entry without timestamp is evaluated as stale for
\* every staleTime and every current time.
C28_NoTimestampAlwaysStale ==
    (staleness.stage = "evaluated" /\ staleness.timestamp = 0)
        => staleness.isStale

\* C28 (amended): an entry without timestamp is evaluated as stale exactly
\* when the current time is greater than staleTime: for staleTime 0 and the
\* default at every time after the first five seconds of the clock, for
\* staleTime Infinity never.
C28_NoTimestampStaleAfterStaleTime ==
    (staleness.stage = "evaluated" /\ staleness.timestamp = 0)
        => /\ staleness.isStale <=> staleness.now > staleness.staleTime
           /\ staleness.staleTime = NeverStale => ~staleness.isStale
           /\ (staleness.staleTime = defaultStaleTime
                  /\ staleness.now > defaultStaleTime) => staleness.isStale

\* C28 witness: an entry without timestamp was evaluated under staleTime
\* Infinity and found fresh.
C28_Witness ==
    /\ staleness.stage = "evaluated"
    /\ staleness.timestamp = 0
    /\ staleness.staleTime = NeverStale
    /\ staleness.now = 1000000
    /\ ~staleness.isStale

\* C29 (as claimed): the timestamp of an entry is absent until a fetch of its
\* key has succeeded, and starting a fetch or failing one leaves the
\* timestamp as it was; a success sets it to the time of its completion.
C29_TimestampOfLastSuccess ==
    /\ [](\A k \in Keys :
             dataCache[k].timestamp # 0
                => \E c \in DOMAIN fetches :
                      fetches[c].key = k /\ fetches[c].outcome = "fulfilled")
    /\ [][\A k \in Keys :
             /\ (\E r \in BOOLEAN : PrefetchData(k, r))
                   => dataCache'[k].timestamp = dataCache[k].timestamp
             /\ \A c \in DOMAIN fetches, e \in Errors :
                   (fetches[c].key = k /\ Reject(c, e))
                      => dataCache'[k].timestamp = dataCache[k].timestamp
             /\ \A c \in DOMAIN fetches, v \in Values :
                   (fetches[c].key = k /\ Resolve(c, v))
                      => dataCache'[k].timestamp = now]_vars

\* the fetches of key k that have failed with a non-abort error, in fs
FailedFetches(fs, k) ==
    {c \in DOMAIN fs : fs[c].key = k /\ fs[c].outcome = "rejected"}

\* C30 (as claimed): the Error entry written when a fetch fails with a
\* non-abort error carries a retryCount of at least 1, and when every fetch
\* of the key so far has failed (each failure followed by a restart), the
\* number of those failures: 1 after the first, k after the k-th.
C30_RetryCountCountsFailures ==
    [][\A c \in DOMAIN fetches, e \in Errors :
          LET k == fetches[c].key IN
          Reject(c, e)
          => /\ dataCache'[k].status = "error"
             /\ dataCache'[k].retryCount >= 1
             /\ FailedFetches(fetches', k)
                   = {d \in DOMAIN fetches' : fetches'[d].key = k}
                => dataCache'[k].retryCount
                      = Cardinality(FailedFetches(fetches', k))]_vars

\* C31 (as claimed): every render of useData with the noCache option starts
\* a fetch of the key.
C31_NoCacheAlwaysFetches ==
    [][\A k \in Keys, st \in StaleTimes, rom \in BOOLEAN :
          UseData(k, st, rom, TRUE) => Len(fetches') = Len(fetches) + 1]_vars

\* the fetch of key k started last
LatestFetch(k) ==
    LET cs == {c \in DOMAIN fetches : fetches[c].key = k}
    IN IF cs = {} THEN 0 ELSE CHOOSE c \in cs : \A d \in cs : d <= c

\* C32 (as claimed): an entry of the data cache carries a controller exactly
\* when its status is Loading or isRefetching, and the controller is that of
\* the fetch of the key started last.
C32_ControllerIffInFlight ==
    \A k \in Keys :
        /\ dataCache[k].controller # 0
              <=> dataCache[k].status \in {"loading", "isRefetching"}
        /\ dataCache[k].controller # 0
              => dataCache[k].controller = LatestFetch(k)

\* C33 (as claimed): PaginationAdapters.custom hands back the caller's
\* selectData, getNext and getPrev as select, getNextPageParam and
\* getPreviousPageParam, and every supplied initialParam, 0 included, as
\* initialPageParam, which is the parameter the initial page is requested
\* with.
C33_CustomPassesThrough ==
    LET c == adapter.config
        o == adapter.options
    IN /\ adapter.stage # "input" =>
             /\ o.select = c.selectData
             /\ o.getNextPageParam = c.getNext
             /\ o.getPreviousPageParam = c.getPrev
             /\ c.initialParam # "undefined"
                   => o.initialPageParam = c.initialParam
       /\ (adapter.stage = "rendered" /\ c.initialParam # "undefined")
             => adapter.requested = c.initialParam

InFlightStatuses ==
    {"loading", "isRefetching", "fetchingNextPage", "fetchingPreviousPage"}

\* C34: when every fetch function call settles, an entry of the data cache or
\* of the universal infinite cache that is in status Loading, isRefetching,
\* fetchingNextPage or fetchingPreviousPage reaches Success or Error,
\* whatever was superseded, aborted or settled late on the way.
C34_InFlightSettles ==
    /\ \A k \in Keys :
          (dataCache[k].status \in InFlightStatuses)
             ~> (dataCache[k].status \in {"success", "error"})
    /\ (universalInfiniteCache.status \in InFlightStatuses)
          ~> (universalInfiniteCache.status \in {"success", "error"})

\* C34, finite form: once every fetch function call made so far has settled,
\* no entry is left in one of those statuses (a run that stops there keeps
\* the entry in flight for ever).
C34_SettledLeavesNoneInFlight ==
    /\ (\A c \in DOMAIN fetches : fetches[c].outcome # "pending")
          => \A k \in Keys : dataCache[k].status \notin InFlightStatuses
    /\ (\A c \in DOMAIN universalRequests :
           universalRequests[c].outcome # "pending")
          => universalInfiniteCache.status \notin InFlightStatuses

\* an absent entry of the data cache becomes present only in a step that
\* starts a fetch for its key
C35_DataClearedStaysAbsent ==
    [][\A k \in Keys :
          dataCache[k].status = "absent" /\ dataCache'[k].status # "absent"
             => /\ Len(fetches') = Len(fetches) + 1
                /\ fetches'[Len(fetches')].key = k]_vars

\* an absent entry of the infinite cache becomes present only in a step that
\* issues a request for it
C35_InfiniteClearedStaysAbsent ==
    [][infiniteDataCache.status = "absent"
          /\ infiniteDataCache'.status # "absent"
             => Len(infiniteRequests') = Len(infiniteRequests) + 1]_vars

\* C35: an entry that is absent (cleared by clearDataCache, clearInfiniteCache
\* or invalidateInfiniteQuery) becomes present again only in a step that
\* requests a new fetch for it; no settlement of an earlier fetch re-creates it.
C35_ClearedStaysAbsent ==
    C35_DataClearedStaysAbsent /\ C35_InfiniteClearedStaysAbsent

\* C36: a call of the refetch() of a response of useData starts no fetch while
\* the entry of the key is Loading or isRefetching at the time of the call.
C36_RefetchNotWhileInFlight ==
    \A k \in Keys :
        (hook[k] # "none" /\ dataCache[k].status \in {"loading", "isRefetching"})
           => refetch(Cur, k, hook[k]).fetches = fetches

\* the initial page fetch of the universal entry failed: Error, no pages
InitialFetchFailed ==
    /\ universalInfiniteCache.status = "error"
    /\ Len(universalInfiniteCache.pages) = 0

\* C37: refetch() and retry() (both refetchAll, and refetchInfiniteQuery of
\* the infinite cache) on an entry with no pageParams issue no fetch and leave
\* the entry as it is; an entry whose initial page fetch failed is left as it
\* is, in Error, by fetchNextPage, fetchPreviousPage, refetch, retry and by
\* every re-render.
C37_FailedInitialStaysError ==
    /\ Len(universalInfiniteCache.pageParams) = 0 => refetchAll(CurU) = CurU
    /\ Len(infiniteDataCache.pageParams) = 0 => refetchInfiniteQuery(CurI) = CurI
    /\ InitialFetchFailed =>
          /\ fetchNextPage(CurU, universalHook) = CurU
          /\ fetchPreviousPage(CurU, universalHook) = CurU
          /\ \A p \in InitialPageParams, enabled \in BOOLEAN :
                useUniversalInfiniteQuery(CurU, p, enabled) = CurU
          /\ \A c \in DOMAIN universalRequests : ~PendingU(c)

\* C37 witness: the initial page fetch failed and the component has rendered
\* the Error state, whose fetchNextPage, fetchPreviousPage, refetch and retry
\* are the ones that can be called.
C37_Witness ==
    /\ InitialFetchFailed
    /\ universalHook.status = "error"
    /\ \E c \in DOMAIN universalRequests :
          universalRequests[c].outcome = "rejected"

\* C38: from stopSync() until the next startSync() the sync callback of the
\* BackgroundSyncManager is not invoked, an offline-to-online transition
\* included.
C38_StoppedManagerNeverSyncs ==
    [][backgroundSync.lastCall = "stopSync"
          => backgroundSync'.syncs = backgroundSync.syncs]_vars

\* C39: from disconnect() until the next connect() call of the application
\* the RealtimeManager creates no WebSocket and schedules no reconnection;
\* a reconnection is scheduled only by the close event of a socket whose
\* closing was not requested by disconnect().
C39_DisconnectStopsReconnecting ==
    [][/\ realtime.lastCall = "disconnect" /\ realtime'.lastCall = "disconnect"
          => /\ Len(realtime'.sockets) = Len(realtime.sockets)
             /\ Len(realtime'.timers) <= Len(realtime.timers)
       /\ \A id \in DOMAIN realtime.sockets :
             (SocketCloses(id) /\ realtime.sockets[id].closeRequested)
                => realtime'.timers = realtime.timers]_vars

\* invocations of fn an execute() may make at most
AllowedCalls(config) == IF config.attempts > 0 THEN config.attempts ELSE 0

\* C40: an execute() invokes the function at most `attempts` times; when an
\* invocation fulfils, the call resolves with its value and the function is
\* not invoked again; with attempts <= 0 the function is never invoked and the
\* call rejects with 'Max retry attempts reached'.
C40_AtMostAttemptsInvocations ==
    /\ [](/\ rm.calls <= AllowedCalls(rm.config)
          /\ (rm.config.attempts <= 0 /\ rm.pc # "idle")
                => /\ rm.pc = "rejected"
                   /\ rm.calls = 0
                   /\ rm.result = MaxRetryMessage)
    /\ [][/\ \A v \in Values :
                FnResolves(v) => /\ rm'.pc = "resolved"
                                 /\ rm'.result = v
                                 /\ rm'.calls = rm.calls
          /\ (rm.pc = "resolved" /\ ~Execute) => rm'.calls = rm.calls]_vars

\* C40 witness: attempts 3, the first invocation failed, the second one
\* fulfilled with v1 and the call resolved with it after two invocations.
C40_Witness ==
    /\ rm.pc = "resolved"
    /\ rm.config.attempts = 3
    /\ rm.calls = 2
    /\ Len(rm.handled) = 1
    /\ rm.result = "v1"

====
